---- MODULE Spec2Model ----
(***************************************************************************)
(* The Direct Manipulation Visual Editor of voxel_demo.                    *)
(*                                                                         *)
(* Spec       : VisualEditor + Editor of src/src/pages/Editor.tsx          *)
(* SpecHover  : the same, pointer and structure events with hover markers  *)
(* SpecLegacy : the VisualEditor of src/unnamed/part_006                   *)
(* SpecPanel  : the property panel, the toolbar and the image modal        *)
(* SpecToolbar: the toolbar's position, over containers and pointers       *)
(* SpecGenerate: AIPromptPanel's generate operation                        *)
(* SpecPreview: AIPromptPanel: generate, component cards, discard, apply   *)
(* SpecApply  : apply after commits made while a generation was in flight  *)
(* SpecCommit : typing, its timer, and the commits of panel and apply      *)
(* SpecClean  : cleanHtmlResponse of the llm service, over provider texts  *)
(* SpecStrip  : the strip step, over markup strings                        *)
(* SpecScreens: useScreensStore of src/src/store/screensStore.ts           *)
(* SpecSave   : the Editor page: a screen is loaded and saved              *)
(* SpecLoad   : the Editor page: screens are loaded; requests settle       *)
(* SpecRoute  : the Editor page: screens are left while a fetch is pending *)
(* SpecGenerateFair: SpecGenerate, every pending generate call settles     *)
(* SpecColor  : rgbToHex of the property panel, over computed colors       *)
(* SpecBatch  : the screens store of src/unnamed/part_007, selectedIds     *)
(*                                                                         *)
(* The LiveTree is the iframe document, the Document is the editor         *)
(* store's currentHtml.  An html string and a parsed tree are both written *)
(* as [styles, body]: the number of <style id="voxel-editor-styles">       *)
(* blocks in the head and the sequence of the body's child elements, each  *)
(* with its tag, its attributes and its text.                              *)
(*                                                                         *)
(* Environment (the browser), stated as guards:                            *)
(*  - blur is delivered to the element that has focus;                     *)
(*  - a click on another element, and every use of the host page's         *)
(*    controls (toolbar, property panel, grid switch), moves focus out of  *)
(*    the focused element first, so it is preceded by that element's blur; *)
(*  - dblclick follows the click on the same target;                       *)
(*  - while the image modal is open its mask takes every pointer and key   *)
(*    event of the page;                                                   *)
(*  - a click on a contenteditable element focuses it;                     *)
(*  - React runs the effect of a store update before the next event;       *)
(*  - SpecLoad: the user goes to another screen when no fetch is in flight.*)
(***************************************************************************)
EXTENDS Integers, Sequences, FiniteSets, TLC

\* ------------------------------------------------------------------ bounds
MaxElems == 2

\* handleGenerate calls of one session
MaxGenerations == 2

\* what the user may type into an element (not a bound: any two texts do)
TextValues == {"Hi", "Hello"}

\* ------------------------------------------------------------- the markup
Tags == {"h1", "img"}

\* a piece of markup: its elements' tags in document order and the text it
\* quotes; NullHtml is generatedHtml === null, EmptyHtml the string ''
Html(tags, quoted) == [isNull |-> FALSE, tags |-> tags, quoted |-> quoted]
NullHtml == [isNull |-> TRUE, tags |-> <<>>, quoted |-> <<>>]
EmptyHtml == Html(<<>>, <<>>)

\* an element: its tag, the editor's attributes, its text, the three things
\* the property panel patches (one style property, one attribute, the image
\* source), data-voxel-generated and the markup set as its innerHTML
Elem(tag, txt) ==
    [tag |-> tag, sel |-> FALSE, hov |-> FALSE, ce |-> FALSE, text |-> txt,
     style |-> "", attr |-> "", src |-> "", gen |-> FALSE, inner |-> EmptyHtml]

\* the Document the screen is loaded with
InitialHtml(tag) ==
    [styles |-> 0, body |-> <<Elem(tag, IF tag = "img" THEN "" ELSE "Hi")>>]

VARIABLES
    tree,          \* the LiveTree: iframeDoc
    currentHtml,   \* editor store: the Document
    storeSel,      \* editor store: selectedElementPath ("null" or the path)
    panelEl,       \* Editor state: selectedElement / selectedElementProps
    toolbar,       \* VisualEditor state: toolbar
    focus,         \* index of the focused element of the LiveTree, 0: none
    pending,       \* number of debounce timers set and neither fired nor cleared
    refPending,    \* whether the timer debounceTimerRef.current names is pending
    editorMode,    \* editor store: editorMode
    imageModalOpen, \* Editor state: imageModalOpen
    selectedElementRef, \* VisualEditor ref: selectedElementRef.current ("null" or "set")
    containerRect, \* containerRef.current.getBoundingClientRect(): [left, top, width]
    lastPatch,     \* the value the last property panel or image modal edit set
    aiPanel,       \* AIPromptPanel: its state, its suspended handleGenerate calls
    llm,           \* llmService: the provider's text and the html made of it
    strip,         \* the strip step: a markup string, stripped once and twice
    color,         \* rgbToHex: a computed color and the value made of it
    batch,         \* the screens store of unnamed/part_007: screens, selectedIds
    screensStore,  \* useScreensStore: screens, flags, a suspended initializeScreens
    supabase,      \* the backend: configuration, session, the screens table
    editorPage,    \* Editor: the route's screen, loading, fetches, the save's outcome
    ev,            \* the last event handled
    nUpd,          \* number of updateHtml calls the last event made
    nCleared,      \* number of pending timers the last event cleared
    lastInput,     \* the texts of the LiveTree at the last input event (see KeepHistory)
    burst,         \* input events of the last burst: 0 none, 1 one, 2 two or more
    toolbarWas     \* whether the toolbar was visible when the last event arrived

\* the state outside the iframe's event handlers
\* the services and stores behind the editor page
screenVars == <<screensStore, supabase, editorPage>>

storeVars == <<llm, strip, color, batch, screenVars>>

auxVars == <<containerRect, lastPatch, aiPanel, storeVars>>

vars == <<tree, currentHtml, storeSel, panelEl, toolbar, focus, pending,
          refPending, editorMode, imageModalOpen, selectedElementRef, ev, nUpd,
          nCleared, lastInput, burst, toolbarWas, auxVars>>

\* ---------------------------------------------------------------- helpers
Idx(t) == 1..Len(t.body)

Texts(t) == [i \in Idx(t) |-> t.body[i].text]

RemoveAt(s, i) == [j \in 1..(Len(s) - 1) |-> IF j < i THEN s[j] ELSE s[j + 1]]

InsertAfter(s, i, e) ==
    [j \in 1..(Len(s) + 1) |->
        IF j <= i THEN s[j] ELSE IF j = i + 1 THEN e ELSE s[j - 1]]

\* iframeDoc.querySelector('[data-voxel-selected="true"]'): the first match, 0: null
QuerySelected(t) ==
    IF \E i \in Idx(t) : t.body[i].sel
    THEN CHOOSE i \in Idx(t) : t.body[i].sel /\ \A j \in 1..(i - 1) : ~t.body[j].sel
    ELSE 0

\* iframeDoc.documentElement.outerHTML: every attribute of every element is written
OuterHTML(t) ==
    [styles |-> t.styles,
     body |-> [i \in Idx(t) |->
                 [tag |-> t.body[i].tag, sel |-> t.body[i].sel,
                  hov |-> t.body[i].hov, ce |-> t.body[i].ce,
                  text |-> t.body[i].text, style |-> t.body[i].style,
                  attr |-> t.body[i].attr, src |-> t.body[i].src,
                  gen |-> t.body[i].gen, inner |-> t.body[i].inner]]]

\* newHtml.replace(/<style id="voxel-editor-styles">[\s\S]*?<\/style>/, ''):
\* no g flag, the first block only
StripEditorStyles(html) ==
    [html EXCEPT !.styles = IF @ > 0 THEN @ - 1 ELSE 0]

SerializeClean(t) == StripEditorStyles(OuterHTML(t))

\* iframeDoc.write(currentHtml.replace('</head>', editorStyles + '</head>'))
IframeWrite(html) ==
    [styles |-> html.styles + 1,
     body |-> [i \in 1..Len(html.body) |->
                 [tag |-> html.body[i].tag, sel |-> html.body[i].sel,
                  hov |-> html.body[i].hov, ce |-> html.body[i].ce,
                  text |-> html.body[i].text, style |-> html.body[i].style,
                  attr |-> html.body[i].attr, src |-> html.body[i].src,
                  gen |-> html.body[i].gen, inner |-> html.body[i].inner]]]

\* clearTimeout(debounceTimerRef.current) on the count of pending timers
ClearTimeout(p, r) == IF r THEN p - 1 ELSE p

NoPanel == [kind |-> "null", idx |-> 0, img |-> FALSE, parent |-> FALSE]
LivePanel(t, i) == [kind |-> "live", idx |-> i, img |-> t.body[i].tag = "img", parent |-> TRUE]

\* an element reference after the iframe document was rewritten: the node is
\* out of the document, still inside its old subtree
Detach(pe) ==
    IF pe.kind = "live" THEN [pe EXCEPT !.kind = "det", !.idx = 0] ELSE pe

\* an element reference after the element at index s was removed from its parent
AfterRemove(pe, s) ==
    IF pe.kind # "live" THEN pe
    ELSE IF pe.idx = s THEN [pe EXCEPT !.kind = "det", !.idx = 0, !.parent = FALSE]
    ELSE IF pe.idx > s THEN [pe EXCEPT !.idx = @ - 1]
    ELSE pe

AfterInsert(pe, s) ==
    IF pe.kind = "live" /\ pe.idx > s THEN [pe EXCEPT !.idx = @ + 1] ELSE pe

HiddenToolbar == [toolbar EXCEPT !.visible = FALSE]

\* updateHtml(html) of the editor store: the Document is replaced wholesale
updateHtml(html) ==
    /\ currentHtml' = html
    /\ nUpd' = 1

\* UpdateHtml whose effect cleanup leaves the pending timer
UpdateHtmlNoCleanup(html, t, p, r, pe, f, c) ==
    /\ updateHtml(html)
    /\ nCleared' = c
    /\ pending' = p
    /\ refPending' = r
    /\ IF html # currentHtml
       THEN /\ tree' = IframeWrite(html)
            /\ panelEl' = Detach(pe)
            /\ focus' = 0
       ELSE /\ tree' = t
            /\ panelEl' = pe
            /\ focus' = f

\* a handler's updateHtml(html) call, then the VisualEditor effect when its
\* dependency currentHtml changed: cleanup (clearTimeout), iframeDoc.open/write/close.
\* t, p, r, pe, f: the tree, timers, panel element and focus the handler leaves;
\* c: the pending timers the handler cleared itself.
UpdateHtml(html, t, p, r, pe, f, c) ==
    /\ updateHtml(html)
    /\ nCleared' = c + (IF html # currentHtml THEN p - ClearTimeout(p, r) ELSE 0)
    /\ IF html # currentHtml
       THEN /\ tree' = IframeWrite(html)
            /\ pending' = ClearTimeout(p, r)
            /\ refPending' = FALSE
            /\ panelEl' = Detach(pe)
            /\ focus' = 0
       ELSE /\ tree' = t
            /\ pending' = p
            /\ refPending' = r
            /\ panelEl' = pe
            /\ focus' = f

\* the history an event other than input leaves: lastInput and burst describe
\* the last input event while its timer is pending and in the state the
\* timer's end leaves, and are blank after that
KeepHistory ==
    /\ lastInput' = IF refPending THEN lastInput ELSE <<>>
    /\ burst' = IF refPending THEN burst ELSE 0
    /\ toolbarWas' = toolbar.visible

\* the host page's controls take the focus out of the iframe
HostFocus == focus = 0

\* useState<ToolbarState>: the toolbar before the first double-click
InitialToolbar ==
    [visible |-> FALSE, x |-> 0, y |-> 0, elementType |-> "", isImage |-> FALSE]

ToolbarWidth == 200
ToolbarLift == 50
ToolbarMinTop == 10

Min(a, b) == IF a <= b THEN a ELSE b
Max(a, b) == IF a >= b THEN a ELSE b

\* the toolbar's x without the clamp to the right edge
ToolbarXUnclamped(clientX, rect) == clientX - rect.left

\* Math.min(e.clientX - containerRect.left, containerRect.width - 200)
ToolbarX(clientX, rect) == Min(clientX - rect.left, rect.width - ToolbarWidth)

\* Math.max(e.clientY - containerRect.top - 50, 10)
ToolbarY(clientY, rect) == Max(clientY - rect.top - ToolbarLift, ToolbarMinTop)

\* AIPromptPanel's useState values and the store's generation fields at load;
\* llmConfigured is isLLMConfigured() of the session
InitialAiPanel(configured) ==
    [prompt |-> <<>>, generatedHtml |-> NullHtml, isGenerating |-> FALSE,
     llmConfigured |-> configured, generationHistory |-> <<>>,
     calls |-> <<>>, nGen |-> 0,
     ended |-> [prompt |-> <<>>, how |-> "none", error |-> FALSE,
                sentHtml |-> [styles |-> 0, body |-> <<>>]]]

\* the container and the pointer of the editing session
DefaultRect == [left |-> 0, top |-> 0, width |-> 800]
DefaultPointer == [clientX |-> 300, clientY |-> 200]

\* no provider text has arrived
NoResponse == [text |-> <<>>, html |-> <<>>, cleaned |-> FALSE]

\* no color has been handed to rgbToHex
NoColor == [rgb |-> <<>>, hex |-> <<>>, converted |-> FALSE]

\* the store of unnamed/part_007 before initializeScreens
NoBatch ==
    [screens |-> <<>>, selectedIds |-> <<>>, hasUserData |-> FALSE,
     isInitialized |-> FALSE, now |-> 1]

\* no markup has been handed to the strip step
NoStrip == [markup |-> <<>>, once |-> <<>>, twice |-> <<>>, n |-> 0]

\* '' / undefined / null: the html that every test of the code takes as absent
NoHtml == [styles |-> 0, body |-> <<>>]
Truthy(html) == html # NoHtml

\* the store before initializeScreens; now: Date.now() as the ids read it
InitialScreensStore ==
    [screens |-> <<>>, isInitialized |-> FALSE, isLoading |-> FALSE,
     initializing |-> FALSE, existingScreens |-> <<>>, now |-> 1]

\* no backend configured
NoSupabase == [configured |-> FALSE, user |-> FALSE, rows |-> <<>>]

\* no Editor page is mounted
NoEditorPage ==
    [screenId |-> <<>>, dep |-> <<>>, loading |-> FALSE, fetches |-> {},
     lastFetch |-> "none", lastWrite |-> "none", message |-> "none",
     saveChangesCalled |-> FALSE]

InitScreensIdle ==
    /\ screensStore = InitialScreensStore
    /\ supabase = NoSupabase
    /\ editorPage = NoEditorPage

InitStores ==
    /\ llm = NoResponse
    /\ strip = NoStrip
    /\ color = NoColor
    /\ batch = NoBatch
    /\ InitScreensIdle

InitAux ==
    /\ containerRect = DefaultRect
    /\ lastPatch = ""
    /\ InitStores
    /\ aiPanel = InitialAiPanel(FALSE)

Init ==
    /\ \E tag \in Tags : currentHtml = InitialHtml(tag)
    /\ tree = IframeWrite(currentHtml)
    /\ storeSel = "null"
    /\ panelEl = NoPanel
    /\ toolbar = InitialToolbar
    /\ focus = 0
    /\ pending = 0
    /\ refPending = FALSE
    /\ editorMode = "select"
    /\ imageModalOpen = FALSE
    /\ selectedElementRef = "null"
    /\ InitAux
    /\ ev = "load"
    /\ nUpd = 0
    /\ nCleared = 0
    /\ lastInput = <<>>
    /\ burst = 0
    /\ toolbarWas = FALSE

\* ------------------------------------------------- VisualEditor (Editor.tsx)
ClearSelected(b) == [i \in 1..Len(b) |-> [b[i] EXCEPT !.sel = FALSE]]
ClearHovered(b) == [i \in 1..Len(b) |-> [b[i] EXCEPT !.hov = FALSE]]

\* click on body / documentElement
handleClickRoot ==
    /\ UNCHANGED auxVars
    /\ selectedElementRef' = "null"
    /\ ~imageModalOpen
    /\ UNCHANGED imageModalOpen
    /\ focus = 0
    /\ storeSel' = "null"
    /\ panelEl' = NoPanel
    /\ toolbar' = HiddenToolbar
    /\ ev' = "clickRoot"
    /\ nUpd' = 0
    /\ nCleared' = 0
    /\ UNCHANGED <<tree, currentHtml, focus, pending, refPending, editorMode>>
    /\ KeepHistory

\* handleClick without its hideToolbar() call
handleClickKeepToolbar(i) ==
    /\ UNCHANGED auxVars
    /\ selectedElementRef' = "set"
    /\ ~imageModalOpen
    /\ UNCHANGED imageModalOpen
    /\ i \in Idx(tree)
    /\ focus \in {0, i}
    /\ tree' = [tree EXCEPT !.body = [ClearSelected(@) EXCEPT ![i].sel = TRUE]]
    /\ storeSel' = tree.body[i].tag
    /\ panelEl' = LivePanel(tree, i)
    /\ toolbar' = toolbar
    /\ focus' = IF tree.body[i].ce THEN i ELSE focus
    /\ ev' = "click"
    /\ nUpd' = 0
    /\ nCleared' = 0
    /\ UNCHANGED <<currentHtml, pending, refPending, editorMode>>
    /\ KeepHistory

handleClick(i) ==
    /\ UNCHANGED auxVars
    /\ selectedElementRef' = "set"
    /\ ~imageModalOpen
    /\ UNCHANGED imageModalOpen
    /\ i \in Idx(tree)
    /\ focus \in {0, i}
    /\ tree' = [tree EXCEPT !.body = [ClearSelected(@) EXCEPT ![i].sel = TRUE]]
    /\ storeSel' = tree.body[i].tag
    /\ panelEl' = LivePanel(tree, i)
    /\ toolbar' = HiddenToolbar
    /\ focus' = IF tree.body[i].ce THEN i ELSE focus
    /\ ev' = "click"
    /\ nUpd' = 0
    /\ nCleared' = 0
    /\ UNCHANGED <<currentHtml, pending, refPending, editorMode>>
    /\ KeepHistory

\* handleDoubleClick on the body or the document element: the early return
handleDoubleClickRoot ==
    /\ ~imageModalOpen
    /\ storeSel = "null" /\ ~toolbar.visible /\ focus = 0
    /\ ev' = "dblclickRoot"
    /\ nUpd' = 0
    /\ nCleared' = 0
    /\ UNCHANGED <<tree, currentHtml, storeSel, panelEl, toolbar, focus, pending,
                   refPending, editorMode, imageModalOpen, selectedElementRef>>
    /\ UNCHANGED auxVars
    /\ KeepHistory

\* handleDoubleClick without its onImageModalOpen call
handleDoubleClickNoModal(i, clientX, clientY) ==
    /\ UNCHANGED auxVars
    /\ UNCHANGED <<selectedElementRef, imageModalOpen>>
    /\ ~imageModalOpen
    /\ i \in Idx(tree)
    /\ tree.body[i].sel
    /\ toolbar' = [visible |-> TRUE,
                   x |-> ToolbarX(clientX, containerRect),
                   y |-> ToolbarY(clientY, containerRect),
                   elementType |-> tree.body[i].tag,
                   isImage |-> tree.body[i].tag = "img"]
    /\ ev' = "dblclick"
    /\ nUpd' = 0
    /\ nCleared' = 0
    /\ UNCHANGED <<tree, currentHtml, storeSel, panelEl, focus, pending,
                   refPending, editorMode>>
    /\ KeepHistory

handleDoubleClick(i, clientX, clientY) ==
    /\ UNCHANGED auxVars
    /\ UNCHANGED selectedElementRef
    /\ ~imageModalOpen
    /\ i \in Idx(tree)
    /\ tree.body[i].sel
    /\ imageModalOpen' = (tree.body[i].tag = "img")
    /\ toolbar' = [visible |-> TRUE,
                   x |-> ToolbarX(clientX, containerRect),
                   y |-> ToolbarY(clientY, containerRect),
                   elementType |-> tree.body[i].tag,
                   isImage |-> tree.body[i].tag = "img"]
    /\ ev' = "dblclick"
    /\ nUpd' = 0
    /\ nCleared' = 0
    /\ UNCHANGED <<tree, currentHtml, storeSel, panelEl, focus, pending,
                   refPending, editorMode>>
    /\ KeepHistory

\* handleMouseOver with a hideToolbar() call added
handleMouseOverHidesToolbar(i) ==
    /\ UNCHANGED auxVars
    /\ UNCHANGED selectedElementRef
    /\ ~imageModalOpen
    /\ UNCHANGED imageModalOpen
    /\ i \in Idx(tree)
    /\ tree' = [tree EXCEPT !.body = [ClearHovered(@) EXCEPT ![i].hov = TRUE]]
    /\ toolbar' = HiddenToolbar
    /\ ev' = "mouseover"
    /\ nUpd' = 0
    /\ nCleared' = 0
    /\ UNCHANGED <<currentHtml, storeSel, panelEl, focus, pending,
                   refPending, editorMode>>
    /\ KeepHistory

handleMouseOver(i) ==
    /\ UNCHANGED auxVars
    /\ UNCHANGED selectedElementRef
    /\ ~imageModalOpen
    /\ UNCHANGED imageModalOpen
    /\ i \in Idx(tree)
    /\ tree' = [tree EXCEPT !.body = [ClearHovered(@) EXCEPT ![i].hov = TRUE]]
    /\ ev' = "mouseover"
    /\ nUpd' = 0
    /\ nCleared' = 0
    /\ UNCHANGED <<currentHtml, storeSel, panelEl, toolbar, focus, pending,
                   refPending, editorMode>>
    /\ KeepHistory

handleMouseOut ==
    /\ UNCHANGED auxVars
    /\ UNCHANGED selectedElementRef
    /\ ~imageModalOpen
    /\ UNCHANGED imageModalOpen
    /\ tree' = [tree EXCEPT !.body = ClearHovered(@)]
    /\ ev' = "mouseout"
    /\ nUpd' = 0
    /\ nCleared' = 0
    /\ UNCHANGED <<currentHtml, storeSel, panelEl, toolbar, focus, pending,
                   refPending, editorMode>>
    /\ KeepHistory

\* debouncedSave that sets a new timer and leaves the old one
debouncedSaveNoClear ==
    /\ pending' = pending + 1
    /\ refPending' = TRUE
    /\ nCleared' = 0

\* debouncedSave: clear the timer the ref names, set a new one
debouncedSave ==
    /\ pending' = ClearTimeout(pending, refPending) + 1
    /\ refPending' = TRUE
    /\ nCleared' = pending - ClearTimeout(pending, refPending)

\* the user types in the focused editable element; its input event
handleInput(txt) ==
    /\ UNCHANGED auxVars
    /\ UNCHANGED selectedElementRef
    /\ ~imageModalOpen
    /\ UNCHANGED imageModalOpen
    /\ focus \in Idx(tree)
    /\ tree.body[focus].ce
    /\ tree.body[focus].tag # "img"
    /\ txt \in TextValues
    /\ txt # tree.body[focus].text
    /\ tree' = [tree EXCEPT !.body[focus].text = txt]
    /\ debouncedSave
    /\ lastInput' = Texts(tree')
    /\ burst' = IF refPending THEN 2 ELSE 1
    /\ toolbarWas' = toolbar.visible
    /\ ev' = "input"
    /\ nUpd' = 0
    /\ UNCHANGED <<currentHtml, storeSel, panelEl, toolbar, focus, editorMode>>

\* the callback of a pending timer: the one the ref names, or another one
debounceTimerFire ==
    \E isRef \in BOOLEAN :
        /\ IF isRef THEN refPending ELSE ClearTimeout(pending, refPending) > 0
        /\ UpdateHtml(SerializeClean(tree), tree, pending - 1,
                      IF isRef THEN FALSE ELSE refPending, panelEl, focus, 0)
        /\ ev' = "timer"
        /\ UNCHANGED <<selectedElementRef, auxVars>>
        /\ UNCHANGED <<storeSel, toolbar, editorMode, imageModalOpen>>
        /\ KeepHistory

\* handleBlur that commits and leaves the timer
handleBlurNoClear ==
    /\ UNCHANGED auxVars
    /\ UNCHANGED selectedElementRef
    /\ UNCHANGED imageModalOpen
    /\ focus \in Idx(tree)
    /\ ev' = "blur"
    /\ IF tree.body[focus].ce
       THEN LET t == [tree EXCEPT !.body[focus].ce = FALSE]
            IN  UpdateHtml(SerializeClean(t), t, pending, refPending, panelEl, 0, 0)
       ELSE /\ focus' = 0
            /\ nUpd' = 0
            /\ nCleared' = 0
            /\ UNCHANGED <<tree, currentHtml, pending, refPending, panelEl>>
    /\ UNCHANGED <<storeSel, toolbar, editorMode>>
    /\ KeepHistory

handleBlur ==
    /\ UNCHANGED auxVars
    /\ UNCHANGED selectedElementRef
    /\ UNCHANGED imageModalOpen
    /\ focus \in Idx(tree)
    /\ ev' = "blur"
    /\ IF tree.body[focus].ce
       THEN LET t == [tree EXCEPT !.body[focus].ce = FALSE]
            IN  UpdateHtml(SerializeClean(t), t, ClearTimeout(pending, refPending),
                           FALSE, panelEl, 0,
                           pending - ClearTimeout(pending, refPending))
       ELSE /\ focus' = 0
            /\ nUpd' = 0
            /\ nCleared' = 0
            /\ UNCHANGED <<tree, currentHtml, pending, refPending, panelEl>>
    /\ UNCHANGED <<storeSel, toolbar, editorMode>>
    /\ KeepHistory

\* keydown, Delete or Backspace
handleKeyDownDelete ==
    /\ UNCHANGED auxVars
    /\ UNCHANGED selectedElementRef
    /\ ~imageModalOpen
    /\ UNCHANGED imageModalOpen
    /\ ev' = "keyDelete"
    /\ LET s == QuerySelected(tree)
       IN  IF s # 0 /\ ~tree.body[s].ce
           THEN LET t == [tree EXCEPT !.body = RemoveAt(@, s)]
                IN  /\ storeSel' = "null"
                    /\ toolbar' = HiddenToolbar
                    /\ UpdateHtml(SerializeClean(t), t, pending, refPending,
                                  AfterRemove(panelEl, s),
                                  IF focus = s THEN 0
                                  ELSE IF focus > s THEN focus - 1 ELSE focus, 0)
           ELSE /\ nUpd' = 0
                /\ nCleared' = 0
                /\ UNCHANGED <<tree, currentHtml, storeSel, panelEl, toolbar,
                               focus, pending, refPending>>
    /\ UNCHANGED <<editorMode>>
    /\ KeepHistory

\* keydown, Escape
handleKeyDownEscape ==
    /\ UNCHANGED auxVars
    /\ UNCHANGED selectedElementRef
    /\ ~imageModalOpen
    /\ UNCHANGED imageModalOpen
    /\ tree' = [tree EXCEPT !.body = [i \in 1..Len(@) |-> [@[i] EXCEPT !.ce = FALSE]]]
    /\ storeSel' = "null"
    /\ toolbar' = HiddenToolbar
    /\ ev' = "escape"
    /\ nUpd' = 0
    /\ nCleared' = 0
    /\ UNCHANGED <<currentHtml, panelEl, focus, pending, refPending, editorMode>>
    /\ KeepHistory

\* toolbar button Delete
handleDeleteElement ==
    /\ UNCHANGED auxVars
    /\ UNCHANGED selectedElementRef
    /\ ~imageModalOpen
    /\ UNCHANGED imageModalOpen
    /\ toolbar.visible
    /\ HostFocus
    /\ ev' = "toolbarDelete"
    /\ LET s == QuerySelected(tree)
       IN  IF s # 0
           THEN LET t == [tree EXCEPT !.body = RemoveAt(@, s)]
                IN  /\ storeSel' = "null"
                    /\ toolbar' = HiddenToolbar
                    /\ UpdateHtml(SerializeClean(t), t, pending, refPending,
                                  AfterRemove(panelEl, s), focus, 0)
           ELSE /\ nUpd' = 0
                /\ nCleared' = 0
                /\ UNCHANGED <<tree, currentHtml, storeSel, panelEl, toolbar,
                               focus, pending, refPending>>
    /\ UNCHANGED <<editorMode>>
    /\ KeepHistory

\* toolbar button Edit Text
handleEditText ==
    /\ UNCHANGED auxVars
    /\ UNCHANGED selectedElementRef
    /\ ~imageModalOpen
    /\ UNCHANGED imageModalOpen
    /\ toolbar.visible
    /\ HostFocus
    /\ ev' = "editText"
    /\ nUpd' = 0
    /\ nCleared' = 0
    /\ LET s == QuerySelected(tree)
       IN  IF s # 0
           THEN /\ tree' = [tree EXCEPT !.body[s].ce = TRUE]
                /\ focus' = s
                /\ toolbar' = HiddenToolbar
           ELSE UNCHANGED <<tree, focus, toolbar>>
    /\ UNCHANGED <<currentHtml, storeSel, panelEl, pending, refPending,
                   editorMode>>
    /\ KeepHistory

\* selected.cloneNode(true); clone.removeAttribute('data-voxel-selected')
CloneNode(e) == [e EXCEPT !.sel = FALSE]

\* toolbar button Duplicate
handleDuplicateElement ==
    /\ UNCHANGED auxVars
    /\ UNCHANGED selectedElementRef
    /\ ~imageModalOpen
    /\ UNCHANGED imageModalOpen
    /\ toolbar.visible
    /\ HostFocus
    /\ Len(tree.body) < MaxElems
    /\ ev' = "toolbarDuplicate"
    /\ LET s == QuerySelected(tree)
       IN  IF s # 0
           THEN LET t == [tree EXCEPT !.body = InsertAfter(@, s, CloneNode(@[s]))]
                IN  /\ toolbar' = HiddenToolbar
                    /\ UpdateHtml(SerializeClean(t), t, pending, refPending,
                                  AfterInsert(panelEl, s), focus, 0)
           ELSE /\ nUpd' = 0
                /\ nCleared' = 0
                /\ UNCHANGED <<tree, currentHtml, panelEl, toolbar, focus,
                               pending, refPending>>
    /\ UNCHANGED <<storeSel, editorMode>>
    /\ KeepHistory

\* --------------------------------------------- Editor: the property panel
\* the panel shows its buttons when selectedElementProps and selectedElement are set
PanelShown == panelEl.kind # "null"

\* panel button Delete
EditorHandleDeleteElement ==
    /\ UNCHANGED auxVars
    /\ UNCHANGED selectedElementRef
    /\ ~imageModalOpen
    /\ UNCHANGED imageModalOpen
    /\ PanelShown
    /\ HostFocus
    /\ ev' = "panelDelete"
    /\ LET t == IF panelEl.kind = "live"
                THEN [tree EXCEPT !.body = RemoveAt(@, panelEl.idx)]
                ELSE tree
       IN  UpdateHtml(SerializeClean(t), t, pending, refPending, NoPanel, focus, 0)
    /\ UNCHANGED <<storeSel, toolbar, editorMode>>
    /\ KeepHistory

\* panel button Duplicate
EditorHandleDuplicateElement ==
    /\ UNCHANGED auxVars
    /\ UNCHANGED selectedElementRef
    /\ ~imageModalOpen
    /\ UNCHANGED imageModalOpen
    /\ PanelShown
    /\ HostFocus
    /\ Len(tree.body) < MaxElems
    /\ ev' = "panelDuplicate"
    /\ IF panelEl.parent
       THEN LET t == IF panelEl.kind = "live"
                     THEN [tree EXCEPT !.body =
                              InsertAfter(@, panelEl.idx, CloneNode(@[panelEl.idx]))]
                     ELSE tree
            IN  UpdateHtml(SerializeClean(t), t, pending, refPending,
                           AfterInsert(panelEl, panelEl.idx), focus, 0)
       ELSE /\ nUpd' = 0
            /\ nCleared' = 0
            /\ UNCHANGED <<tree, currentHtml, panelEl, focus, pending, refPending>>
    /\ UNCHANGED <<storeSel, toolbar, editorMode>>
    /\ KeepHistory

\* the grid switch of the top bar: showGrid is a dependency of the effect,
\* which runs its cleanup and writes the iframe again
toggleGrid ==
    /\ UNCHANGED auxVars
    /\ UNCHANGED selectedElementRef
    /\ ~imageModalOpen
    /\ UNCHANGED imageModalOpen
    /\ HostFocus
    /\ tree' = IframeWrite(currentHtml)
    /\ pending' = ClearTimeout(pending, refPending)
    /\ refPending' = FALSE
    /\ panelEl' = Detach(panelEl)
    /\ focus' = 0
    /\ ev' = "toggleGrid"
    /\ nUpd' = 0
    /\ nCleared' = pending - ClearTimeout(pending, refPending)
    /\ UNCHANGED <<currentHtml, storeSel, toolbar, editorMode>>
    /\ KeepHistory

\* the values the property panel and the image modal may set
PatchValues == {"a", "b"}

\* Editor.handleUpdateStyle: selectedElement.style[property] = value, commit
handleUpdateStyle(value) ==
    /\ UNCHANGED <<containerRect, aiPanel, storeVars>>
    /\ lastPatch' = value
    /\ UNCHANGED <<selectedElementRef, imageModalOpen>>
    /\ ~imageModalOpen
    /\ PanelShown
    /\ HostFocus
    /\ ev' = "style"
    /\ LET t == IF panelEl.kind = "live"
                THEN [tree EXCEPT !.body[panelEl.idx].style = value]
                ELSE tree
       IN  UpdateHtml(SerializeClean(t), t, pending, refPending, panelEl, focus, 0)
    /\ UNCHANGED <<storeSel, toolbar, editorMode>>
    /\ KeepHistory

\* Editor.handleUpdateAttribute: selectedElement.setAttribute(attribute, value), commit
handleUpdateAttribute(value) ==
    /\ UNCHANGED <<containerRect, aiPanel, storeVars>>
    /\ lastPatch' = value
    /\ UNCHANGED <<selectedElementRef, imageModalOpen>>
    /\ ~imageModalOpen
    /\ PanelShown
    /\ HostFocus
    /\ ev' = "attribute"
    /\ LET t == IF panelEl.kind = "live"
                THEN [tree EXCEPT !.body[panelEl.idx].attr = value]
                ELSE tree
       IN  UpdateHtml(SerializeClean(t), t, pending, refPending, panelEl, focus, 0)
    /\ UNCHANGED <<storeSel, toolbar, editorMode>>
    /\ KeepHistory

\* Editor.handleImageReplace: return unless selectedElement is an IMG; set src, commit
handleImageReplace(newSrc) ==
    IF panelEl.kind # "null" /\ panelEl.img
    THEN LET t == IF panelEl.kind = "live"
                  THEN [tree EXCEPT !.body[panelEl.idx].src = newSrc]
                  ELSE tree
         IN  UpdateHtml(SerializeClean(t), t, pending, refPending, panelEl, focus, 0)
    ELSE /\ nUpd' = 0
         /\ nCleared' = 0
         /\ UNCHANGED <<tree, currentHtml, pending, refPending, panelEl, focus>>

\* the image modal's Replace Image button, with a non-empty newImageUrl
handleReplaceImageConfirm(newImageUrl) ==
    /\ UNCHANGED <<containerRect, aiPanel, storeVars>>
    /\ lastPatch' = newImageUrl
    /\ UNCHANGED selectedElementRef
    /\ imageModalOpen
    /\ handleImageReplace(newImageUrl)
    /\ imageModalOpen' = FALSE
    /\ ev' = "imageReplace"
    /\ UNCHANGED <<storeSel, toolbar, editorMode>>
    /\ KeepHistory

\* toolbar button Change Image, shown when toolbar.isImage
toolbarChangeImage ==
    /\ UNCHANGED auxVars
    /\ toolbar.visible
    /\ toolbar.isImage
    /\ HostFocus
    /\ ~imageModalOpen
    /\ imageModalOpen' = (selectedElementRef # "null")
    /\ ev' = "changeImage"
    /\ nUpd' = 0
    /\ nCleared' = 0
    /\ UNCHANGED <<tree, currentHtml, storeSel, panelEl, toolbar, focus, pending,
                   refPending, editorMode, selectedElementRef>>
    /\ KeepHistory

\* the property panel's Replace Image button, shown in the panel's image section
handleOpenImageModal ==
    /\ UNCHANGED auxVars
    /\ PanelShown
    /\ panelEl.img
    /\ HostFocus
    /\ ~imageModalOpen
    /\ imageModalOpen' = TRUE
    /\ ev' = "panelOpenImageModal"
    /\ nUpd' = 0
    /\ nCleared' = 0
    /\ UNCHANGED <<tree, currentHtml, storeSel, panelEl, toolbar, focus, pending,
                   refPending, editorMode, selectedElementRef>>
    /\ KeepHistory

\* the image modal's Cancel button, close button or mask
handleImageModalClose ==
    /\ UNCHANGED auxVars
    /\ UNCHANGED selectedElementRef
    /\ imageModalOpen
    /\ imageModalOpen' = FALSE
    /\ ev' = "modalClose"
    /\ nUpd' = 0
    /\ nCleared' = 0
    /\ UNCHANGED <<tree, currentHtml, storeSel, panelEl, toolbar, focus, pending,
                   refPending, editorMode>>
    /\ KeepHistory

Next ==
    \/ handleClickRoot
    \/ \E i \in Idx(tree) : handleClick(i)
    \/ \E i \in Idx(tree) :
          handleDoubleClick(i, DefaultPointer.clientX, DefaultPointer.clientY)
    \/ handleImageModalClose
    \/ toolbarChangeImage
    \/ handleOpenImageModal
    \/ \E txt \in TextValues : handleInput(txt)
    \/ debounceTimerFire
    \/ handleBlur
    \/ handleKeyDownDelete
    \/ handleKeyDownEscape
    \/ handleDeleteElement
    \/ handleEditText
    \/ handleDuplicateElement
    \/ EditorHandleDeleteElement
    \/ EditorHandleDuplicateElement
    \/ toggleGrid

Spec == Init /\ [][Next]_vars

\* the pointer, selection and structure events, with the hover markers
NextHover ==
    \/ handleClickRoot
    \/ \E i \in Idx(tree) : handleClick(i)
    \/ \E i \in Idx(tree) :
          handleDoubleClick(i, DefaultPointer.clientX, DefaultPointer.clientY)
    \/ handleImageModalClose
    \/ \E i \in Idx(tree) : handleMouseOver(i)
    \/ handleMouseOut
    \/ handleKeyDownDelete
    \/ handleKeyDownEscape
    \/ handleDeleteElement
    \/ handleDuplicateElement
    \/ EditorHandleDeleteElement
    \/ EditorHandleDuplicateElement
    \/ toggleGrid

SpecHover == Init /\ [][NextHover]_vars

\* ------------------------------- the property panel, toolbar and image modal
\* the Document of a screen with a heading and an image
PanelInitialHtml == [styles |-> 0, body |-> <<Elem("h1", "Hi"), Elem("img", "")>>]

InitPanel ==
    /\ currentHtml = PanelInitialHtml
    /\ tree = IframeWrite(currentHtml)
    /\ storeSel = "null"
    /\ panelEl = NoPanel
    /\ toolbar = InitialToolbar
    /\ focus = 0
    /\ pending = 0
    /\ refPending = FALSE
    /\ editorMode = "select"
    /\ imageModalOpen = FALSE
    /\ selectedElementRef = "null"
    /\ InitAux
    /\ ev = "load"
    /\ nUpd = 0
    /\ nCleared = 0
    /\ lastInput = <<>>
    /\ burst = 0
    /\ toolbarWas = FALSE

NextPanel ==
    \/ handleClickRoot
    \/ handleDoubleClickRoot
    \/ \E i \in Idx(tree) : handleClick(i)
    \/ \E i \in Idx(tree) :
          handleDoubleClick(i, DefaultPointer.clientX, DefaultPointer.clientY)
    \/ handleImageModalClose
    \/ toolbarChangeImage
    \/ handleOpenImageModal
    \/ \E url \in PatchValues : handleReplaceImageConfirm(url)
    \/ \E v \in PatchValues : handleUpdateStyle(v)
    \/ \E v \in PatchValues : handleUpdateAttribute(v)
    \/ handleEditText
    \/ handleDeleteElement
    \/ handleBlur
    \/ EditorHandleDeleteElement

SpecPanel == InitPanel /\ [][NextPanel]_vars

\* ------------------------------------------------- the toolbar's position
\* container.getBoundingClientRect(): containers narrower than, as wide as and
\* wider than the toolbar, at several offsets in the window
ContainerRects ==
    [left : {0, 30}, top : {0, 40}, width : {0, 150, 200, 260, 800}]

\* e.clientX, e.clientY of the double-click
ClientXs == {0, 30, 100, 250, 700, 900}
ClientYs == {0, 40, 55, 60, 100, 300}

InitToolbar ==
    /\ currentHtml = InitialHtml("h1")
    /\ tree = IframeWrite(currentHtml)
    /\ storeSel = "null"
    /\ panelEl = NoPanel
    /\ toolbar = InitialToolbar
    /\ focus = 0
    /\ pending = 0
    /\ refPending = FALSE
    /\ editorMode = "select"
    /\ imageModalOpen = FALSE
    /\ selectedElementRef = "null"
    /\ containerRect \in ContainerRects
    /\ lastPatch = ""
    /\ InitStores
    /\ aiPanel = InitialAiPanel(FALSE)
    /\ ev = "load"
    /\ nUpd = 0
    /\ nCleared = 0
    /\ lastInput = <<>>
    /\ burst = 0
    /\ toolbarWas = FALSE

NextToolbar ==
    \/ handleClickRoot
    \/ \E i \in Idx(tree) : handleClick(i)
    \/ \E i \in Idx(tree), clientX \in ClientXs, clientY \in ClientYs :
          handleDoubleClick(i, clientX, clientY)
    \/ handleKeyDownEscape

SpecToolbar == InitToolbar /\ [][NextToolbar]_vars

\* ------------------------------------------------ AIPromptPanel: generate
\* a string is the sequence of its characters
UpperChars ==
    <<"A", "B", "C", "D", "E", "F", "G", "H", "I", "J", "K", "L", "M",
      "N", "O", "P", "Q", "R", "S", "T", "U", "V", "W", "X", "Y", "Z">>
LowerChars ==
    <<"a", "b", "c", "d", "e", "f", "g", "h", "i", "j", "k", "l", "m",
      "n", "o", "p", "q", "r", "s", "t", "u", "v", "w", "x", "y", "z">>

\* String.prototype.toLowerCase
ToLowerCase(str) ==
    [k \in 1..Len(str) |->
        IF \E u \in 1..Len(UpperChars) : UpperChars[u] = str[k]
        THEN LowerChars[CHOOSE u \in 1..Len(UpperChars) : UpperChars[u] = str[k]]
        ELSE str[k]]

\* String.prototype.includes
Includes(str, sub) ==
    \E k \in 1..(Len(str) - Len(sub) + 1) : SubSeq(str, k, k + Len(sub) - 1) = sub

\* prompt.trim() is not the empty string
WhiteSpace == {" ", "\n", "\t"}
TrimmedNonEmpty(str) == \E k \in 1..Len(str) : str[k] \notin WhiteSpace

\* {generatedHtml && ...}: the preview with its Apply button is rendered
Previewable(h) == ~h.isNull /\ h # EmptyHtml

\* the markup has an element with this tag
ContainsTag(h, tag) == \E k \in 1..Len(h.tags) : h.tags[k] = tag

MOCK_AI_RESPONSES ==
    [button |-> Html(<<"button">>, <<>>),
     header |-> Html(<<"header", "h1", "nav", "a", "a">>, <<>>),
     card   |-> Html(<<"div", "h3", "p">>, <<>>),
     form   |-> Html(<<"form", "div", "label", "input", "button">>, <<>>)]

KeywordButton == <<"b", "u", "t", "t", "o", "n">>
KeywordHeader == <<"h", "e", "a", "d", "e", "r">>
KeywordNav == <<"n", "a", "v">>
KeywordCard == <<"c", "a", "r", "d">>
KeywordBox == <<"b", "o", "x">>
KeywordForm == <<"f", "o", "r", "m">>
KeywordInput == <<"i", "n", "p", "u", "t">>

getMockResponse(prompt) ==
    LET lowerPrompt == ToLowerCase(prompt)
    IN  IF Includes(lowerPrompt, KeywordButton)
        THEN MOCK_AI_RESPONSES.button
        ELSE IF Includes(lowerPrompt, KeywordHeader) \/ Includes(lowerPrompt, KeywordNav)
        THEN MOCK_AI_RESPONSES.header
        ELSE IF Includes(lowerPrompt, KeywordCard) \/ Includes(lowerPrompt, KeywordBox)
        THEN MOCK_AI_RESPONSES.card
        ELSE IF Includes(lowerPrompt, KeywordForm) \/ Includes(lowerPrompt, KeywordInput)
        THEN MOCK_AI_RESPONSES.form
        ELSE Html(<<"div", "h3", "p">>, prompt)

\* the instructions typed into the prompt box: "add a button", "BUTTON",
\* "nav", "inbox", "input", "hi" and a blank
AddAButton == <<"a", "d", "d", " ", "a", " ", "b", "u", "t", "t", "o", "n">>
Prompts ==
    {AddAButton,
     <<"B", "U", "T", "T", "O", "N">>,
     <<"n", "a", "v">>,
     <<"i", "n", "b", "o", "x">>,
     <<"i", "n", "p", "u", "t">>,
     <<"h", "i">>,
     <<" ">>}

\* response.html of a successful generateHtml: cleanHtmlResponse of the
\* provider's text, which may be ''
ProviderHtmls == {EmptyHtml, Html(<<"section", "button">>, <<>>)}

\* the second argument handleGenerate passes to addGenerationToHistory
HistoryFlag == FALSE

\* an event of AIPromptPanel: the editor is left alone
AiPanelEvent(event) ==
    /\ ev' = event
    /\ nUpd' = 0
    /\ nCleared' = 0
    /\ UNCHANGED <<tree, currentHtml, storeSel, panelEl, toolbar, focus, pending,
                   refPending, editorMode, imageModalOpen, selectedElementRef,
                   containerRect, lastPatch, storeVars>>
    /\ KeepHistory

\* TextArea onChange: setPrompt(e.target.value)
setPrompt(value) ==
    /\ ~imageModalOpen
    /\ HostFocus
    /\ aiPanel' = [aiPanel EXCEPT !.prompt = value]
    /\ AiPanelEvent("setPrompt")

\* handleGenerate up to its await, from the Generate button or Ctrl+Enter in
\* the prompt box (which does not look at isGenerating)
handleGenerate ==
    /\ ~imageModalOpen
    /\ HostFocus
    /\ aiPanel.nGen < MaxGenerations
    /\ aiPanel' =
          IF TrimmedNonEmpty(aiPanel.prompt)
          THEN [aiPanel EXCEPT
                   !.isGenerating = TRUE,
                   !.generatedHtml = NullHtml,
                   !.nGen = @ + 1,
                   !.calls = Append(@, [prompt |-> aiPanel.prompt,
                                        currentHtml |-> currentHtml,
                                        awaits |-> IF aiPanel.llmConfigured
                                                   THEN "generateHtml"
                                                   ELSE "setTimeout"])]
          ELSE aiPanel
    /\ AiPanelEvent("generate")

\* the rest of handleGenerate's mock branch, when its 1500 ms timer fires
handleGenerateMock ==
    /\ aiPanel.calls # <<>>
    /\ aiPanel.calls[1].awaits = "setTimeout"
    /\ LET call == aiPanel.calls[1]
       IN  aiPanel' = [aiPanel EXCEPT
                          !.generatedHtml = getMockResponse(call.prompt),
                          !.generationHistory =
                              Append(@, [prompt |-> call.prompt, flag |-> HistoryFlag]),
                          !.isGenerating = FALSE,
                          !.calls = Tail(@),
                          !.ended = [prompt |-> call.prompt, how |-> "mock",
                                     error |-> FALSE,
                                     sentHtml |-> call.currentHtml]]
    /\ AiPanelEvent("mockGenerated")

\* the rest of handleGenerate when generateHtml resolves with success: true
handleGenerateSuccess(i, html) ==
    /\ i \in 1..Len(aiPanel.calls)
    /\ aiPanel.calls[i].awaits = "generateHtml"
    /\ LET call == aiPanel.calls[i]
       IN  aiPanel' = [aiPanel EXCEPT
                          !.generatedHtml = html,
                          !.generationHistory =
                              Append(@, [prompt |-> call.prompt, flag |-> HistoryFlag]),
                          !.isGenerating = FALSE,
                          !.calls = RemoveAt(@, i),
                          !.ended = [prompt |-> call.prompt, how |-> "provider",
                                     error |-> FALSE,
                                     sentHtml |-> call.currentHtml]]
    /\ AiPanelEvent("generated")

\* the rest of handleGenerate when generateHtml resolves with success: false
\* (no configuration found, unsupported provider, or the provider's call
\* failed): message.error, then the mock response
handleGenerateFailure(i) ==
    /\ i \in 1..Len(aiPanel.calls)
    /\ aiPanel.calls[i].awaits = "generateHtml"
    /\ LET call == aiPanel.calls[i]
       IN  aiPanel' = [aiPanel EXCEPT
                          !.generatedHtml = getMockResponse(call.prompt),
                          !.isGenerating = FALSE,
                          !.calls = RemoveAt(@, i),
                          !.ended = [prompt |-> call.prompt, how |-> "fallback",
                                     error |-> TRUE,
                                     sentHtml |-> call.currentHtml]]
    /\ AiPanelEvent("fallbackGenerated")

\* generateHtml rejects: getLLMConfigAsync is awaited outside any try, and
\* getApiKeys throws when the key query fails; handleGenerate has no catch,
\* so its remaining statements never run
handleGenerateRejected(i) ==
    /\ i \in 1..Len(aiPanel.calls)
    /\ aiPanel.calls[i].awaits = "generateHtml"
    /\ LET call == aiPanel.calls[i]
       IN  aiPanel' = [aiPanel EXCEPT
                          !.calls = RemoveAt(@, i),
                          !.ended = [prompt |-> call.prompt, how |-> "rejected",
                                     error |-> FALSE,
                                     sentHtml |-> call.currentHtml]]
    /\ AiPanelEvent("generateRejected")

\* the preview's Discard button
discardGenerated ==
    /\ ~imageModalOpen
    /\ HostFocus
    /\ Previewable(aiPanel.generatedHtml)
    /\ aiPanel' = [aiPanel EXCEPT !.generatedHtml = NullHtml]
    /\ AiPanelEvent("discard")

\* a card of the component library: setGeneratedHtml(`<style>${comp.css}</style>${comp.html}`)
ComponentHtmls == {Html(<<"style", "div">>, <<>>)}

pickComponent(html) ==
    /\ ~imageModalOpen
    /\ HostFocus
    /\ aiPanel' = [aiPanel EXCEPT !.generatedHtml = html]
    /\ AiPanelEvent("pickComponent")

\* new DOMParser().parseFromString(currentHtml, 'text/html')
ParseFromString(html) ==
    [styles |-> html.styles,
     body |-> [i \in 1..Len(html.body) |->
                 [tag |-> html.body[i].tag, sel |-> html.body[i].sel,
                  hov |-> html.body[i].hov, ce |-> html.body[i].ce,
                  text |-> html.body[i].text, style |-> html.body[i].style,
                  attr |-> html.body[i].attr, src |-> html.body[i].src,
                  gen |-> html.body[i].gen, inner |-> html.body[i].inner]]]

WrapperStyle ==
    "margin: 20px; padding: 20px; border: 2px dashed #764ba2; border-radius: 8px;"

\* the wrapper handleApply builds around the generated markup
Wrapper(html) ==
    [Elem("div", "") EXCEPT !.inner = html, !.style = WrapperStyle, !.gen = TRUE]

\* handleApply on the Document of the request instead of the store's
handleApplyToSent ==
    /\ ~imageModalOpen
    /\ HostFocus
    /\ Previewable(aiPanel.generatedHtml)
    /\ Len(aiPanel.ended.sentHtml.body) < MaxElems
    /\ LET doc == ParseFromString(aiPanel.ended.sentHtml)
           applied == [doc EXCEPT !.body = Append(@, Wrapper(aiPanel.generatedHtml))]
       IN  UpdateHtml(OuterHTML(applied), tree, pending, refPending, panelEl, focus, 0)
    /\ aiPanel' = [aiPanel EXCEPT !.generatedHtml = NullHtml, !.prompt = <<>>]
    /\ ev' = "apply"
    /\ UNCHANGED <<storeSel, toolbar, editorMode, imageModalOpen, selectedElementRef,
                   containerRect, lastPatch, storeVars>>
    /\ KeepHistory

\* handleApply that leaves the preview
handleApplyKeepPreview ==
    /\ ~imageModalOpen
    /\ HostFocus
    /\ Previewable(aiPanel.generatedHtml)
    /\ Len(currentHtml.body) < MaxElems
    /\ LET doc == ParseFromString(currentHtml)
           applied == [doc EXCEPT !.body = Append(@, Wrapper(aiPanel.generatedHtml))]
       IN  UpdateHtml(OuterHTML(applied), tree, pending, refPending, panelEl, focus, 0)
    /\ aiPanel' = [aiPanel EXCEPT !.prompt = <<>>]
    /\ ev' = "apply"
    /\ UNCHANGED <<storeSel, toolbar, editorMode, imageModalOpen, selectedElementRef,
                   containerRect, lastPatch, storeVars>>
    /\ KeepHistory

\* the preview's Apply to Page button
handleApply ==
    /\ ~imageModalOpen
    /\ HostFocus
    /\ Previewable(aiPanel.generatedHtml)
    /\ Len(currentHtml.body) < MaxElems
    /\ LET doc == ParseFromString(currentHtml)
           applied == [doc EXCEPT !.body = Append(@, Wrapper(aiPanel.generatedHtml))]
       IN  UpdateHtml(OuterHTML(applied), tree, pending, refPending, panelEl, focus, 0)
    /\ aiPanel' = [aiPanel EXCEPT !.generatedHtml = NullHtml, !.prompt = <<>>]
    /\ ev' = "apply"
    /\ UNCHANGED <<storeSel, toolbar, editorMode, imageModalOpen, selectedElementRef,
                   containerRect, lastPatch, storeVars>>
    /\ KeepHistory

InitGenerate ==
    /\ currentHtml = InitialHtml("h1")
    /\ tree = IframeWrite(currentHtml)
    /\ storeSel = "null"
    /\ panelEl = NoPanel
    /\ toolbar = InitialToolbar
    /\ focus = 0
    /\ pending = 0
    /\ refPending = FALSE
    /\ editorMode = "select"
    /\ imageModalOpen = FALSE
    /\ selectedElementRef = "null"
    /\ containerRect = DefaultRect
    /\ lastPatch = ""
    /\ InitStores
    /\ \E configured \in BOOLEAN : aiPanel = InitialAiPanel(configured)
    /\ ev = "load"
    /\ nUpd = 0
    /\ nCleared = 0
    /\ lastInput = <<>>
    /\ burst = 0
    /\ toolbarWas = FALSE

NextGenerate ==
    \/ \E value \in Prompts : setPrompt(value)
    \/ handleGenerate
    \/ handleGenerateMock
    \/ \E i \in 1..Len(aiPanel.calls), html \in ProviderHtmls :
          handleGenerateSuccess(i, html)
    \/ \E i \in 1..Len(aiPanel.calls) : handleGenerateFailure(i)
    \/ \E i \in 1..Len(aiPanel.calls) : handleGenerateRejected(i)
    \/ discardGenerated

SpecGenerate == InitGenerate /\ [][NextGenerate]_vars

\* a pending promise settles: the 1500 ms timer fires, and the call of
\* generateHtml resolves or rejects
generateSettles ==
    \/ handleGenerateMock
    \/ \E i \in 1..Len(aiPanel.calls), html \in ProviderHtmls :
          handleGenerateSuccess(i, html)
    \/ \E i \in 1..Len(aiPanel.calls) : handleGenerateFailure(i)
    \/ \E i \in 1..Len(aiPanel.calls) : handleGenerateRejected(i)

SpecGenerateFair == SpecGenerate /\ WF_vars(generateSettles)

\* a session without configuration
InitApply ==
    /\ InitGenerate
    /\ ~aiPanel.llmConfigured

\* the preview: results arrive, are discarded or applied
NextPreview ==
    \/ \E value \in {AddAButton, <<"h", "i">>} : setPrompt(value)
    \/ handleGenerate
    \/ handleGenerateMock
    \/ \E i \in 1..Len(aiPanel.calls), html \in ProviderHtmls :
          handleGenerateSuccess(i, html)
    \/ \E i \in 1..Len(aiPanel.calls) : handleGenerateFailure(i)
    \/ \E i \in 1..Len(aiPanel.calls) : handleGenerateRejected(i)
    \/ \E html \in ComponentHtmls : pickComponent(html)
    \/ discardGenerated
    \/ handleApply

SpecPreview == InitGenerate /\ [][NextPreview]_vars

\* generate and apply next to the property panel's commits
NextApply ==
    \/ \E i \in Idx(tree) : handleClick(i)
    \/ handleUpdateStyle("a")
    \/ setPrompt(AddAButton)
    \/ handleGenerate
    \/ handleGenerateMock
    \/ handleApply

SpecApply == InitApply /\ [][NextApply]_vars

\* every way to commit next to the typing of text: the debounce timer, blur,
\* the property panel and the apply of a picked component
NextCommit ==
    \/ \E i \in Idx(tree) : handleClick(i)
    \/ \E i \in Idx(tree) :
          handleDoubleClick(i, DefaultPointer.clientX, DefaultPointer.clientY)
    \/ handleEditText
    \/ \E txt \in TextValues : handleInput(txt)
    \/ debounceTimerFire
    \/ handleBlur
    \/ handleKeyDownEscape
    \/ handleUpdateStyle("a")
    \/ \E html \in ComponentHtmls : pickComponent(html)
    \/ handleApply

SpecCommit == InitApply /\ [][NextCommit]_vars

\* ------------------------------------------- llmService: cleanHtmlResponse
\* String.prototype.trim
RECURSIVE TrimStart(_)
TrimStart(str) ==
    IF str # <<>> /\ Head(str) \in WhiteSpace THEN TrimStart(Tail(str)) ELSE str

RECURSIVE TrimEnd(_)
TrimEnd(str) ==
    IF str # <<>> /\ str[Len(str)] \in WhiteSpace
    THEN TrimEnd(SubSeq(str, 1, Len(str) - 1))
    ELSE str

Trim(str) == TrimEnd(TrimStart(str))

\* String.prototype.startsWith, endsWith, slice(n), slice(0, -n)
StartsWith(str, sub) == Len(sub) <= Len(str) /\ SubSeq(str, 1, Len(sub)) = sub
EndsWith(str, sub) ==
    Len(sub) <= Len(str) /\ SubSeq(str, Len(str) - Len(sub) + 1, Len(str)) = sub
SliceFrom(str, n) == SubSeq(str, n + 1, Len(str))
SliceEnd(str, n) == SubSeq(str, 1, Len(str) - n)

\* the grave accent, which no string of this language can hold
GraveAccent == "GRAVE"

Fence == <<GraveAccent, GraveAccent, GraveAccent>>
FenceHtml == Fence \o <<"h", "t", "m", "l">>

cleanHtmlResponse(html) ==
    LET trimmed == Trim(html)
        opened == IF StartsWith(trimmed, FenceHtml) THEN SliceFrom(trimmed, Len(FenceHtml))
                  ELSE IF StartsWith(trimmed, Fence) THEN SliceFrom(trimmed, Len(Fence))
                  ELSE trimmed
        closed == IF EndsWith(opened, Fence) THEN SliceEnd(opened, Len(Fence)) ELSE opened
    IN  Trim(closed)

\* the markup a provider answers with: a paragraph, a tag, a grave accent
\* inside a tag, the word html
ResponseBodies ==
    {<<"<", "p", ">", "a", " ", "b", "<", "/", "p", ">">>,
     <<"<", "b", ">">>,
     <<"<", "i", ">", GraveAccent, "<", "/", "i", ">">>,
     <<"h", "t", "m", "l">>}

\* the language tags a fenced code block opens with: none, html, HTML, xml, svg
LanguageTags ==
    {<<>>, <<"h", "t", "m", "l">>, <<"H", "T", "M", "L">>, <<"x", "m", "l">>,
     <<"s", "v", "g">>}

\* a fenced code block around the markup, and one the provider left open
Fenced(tag, body) == Fence \o tag \o <<"\n">> \o body \o <<"\n">> \o Fence
FencedOpen(tag, body) == Fence \o tag \o <<"\n">> \o body

\* what surrounds the answer: nothing, a line break, a blank
Paddings == {<<>>, <<"\n">>, <<" ">>}

\* data.content[0]?.text of the answer
ProviderTexts ==
    {pad \o body \o pad : pad \in Paddings, body \in ResponseBodies}
    \cup {pad \o Fenced(tag, body) \o pad :
             pad \in Paddings, tag \in LanguageTags, body \in ResponseBodies}
    \cup {pad \o FencedOpen(tag, body) \o pad :
             pad \in Paddings, tag \in LanguageTags, body \in ResponseBodies}

\* generateWithAnthropic / OpenAI / Google: html: cleanHtmlResponse(text)
\* a step outside the VisualEditor: its state apart from the Document stays
IdleStep(event) ==
    /\ ev' = event
    /\ nUpd' = 0
    /\ nCleared' = 0
    /\ UNCHANGED <<storeSel, panelEl, toolbar, focus, pending,
                   refPending, editorMode, imageModalOpen, selectedElementRef,
                   containerRect, lastPatch, aiPanel>>
    /\ KeepHistory

\* a step of a service or store: the editor page is not touched
StoreStep(event) ==
    /\ IdleStep(event)
    /\ UNCHANGED <<tree, currentHtml>>

generateWithProvider ==
    /\ ~llm.cleaned
    /\ llm' = [llm EXCEPT !.html = cleanHtmlResponse(llm.text), !.cleaned = TRUE]
    /\ UNCHANGED <<strip, color, batch, screenVars>>
    /\ StoreStep("cleaned")

\* the editor's controls at rest
InitIdleControls ==
    /\ storeSel = "null"
    /\ panelEl = NoPanel
    /\ toolbar = InitialToolbar
    /\ focus = 0
    /\ pending = 0
    /\ refPending = FALSE
    /\ editorMode = "select"
    /\ imageModalOpen = FALSE
    /\ selectedElementRef = "null"
    /\ containerRect = DefaultRect
    /\ lastPatch = ""
    /\ aiPanel = InitialAiPanel(TRUE)
    /\ ev = "load"
    /\ nUpd = 0
    /\ nCleared = 0
    /\ lastInput = <<>>
    /\ burst = 0
    /\ toolbarWas = FALSE

\* the editor page at rest, one heading loaded
InitEditorIdle ==
    /\ currentHtml = InitialHtml("h1")
    /\ tree = IframeWrite(currentHtml)
    /\ InitIdleControls

InitClean ==
    /\ InitEditorIdle
    /\ \E text \in ProviderTexts : llm = [NoResponse EXCEPT !.text = text]
    /\ strip = NoStrip
    /\ color = NoColor
    /\ batch = NoBatch
    /\ InitScreensIdle

NextClean == generateWithProvider

SpecClean == InitClean /\ [][NextClean]_vars

\* ------------------------------------------------ the strip step on strings
MaxMarkupLen == 4

\* the pieces of a markup string that the pattern tells apart:
\* '<style id="voxel-editor-styles">', '</style>', '<style>', anything else
ReservedOpen == "<style id=\"voxel-editor-styles\">"
StyleClose == "</style>"
MarkupPieces == {ReservedOpen, StyleClose, "<style>", "<p>"}

RECURSIVE SeqsUpTo(_, _)
SeqsUpTo(S, n) ==
    IF n = 0 THEN {<<>>}
    ELSE LET shorter == SeqsUpTo(S, n - 1)
         IN  shorter \cup {Append(q, x) : q \in {r \in shorter : Len(r) = n - 1}, x \in S}

Markups == SeqsUpTo(MarkupPieces, MaxMarkupLen)

\* newHtml.replace(/<style id="voxel-editor-styles">[\s\S]*?<\/style>/, ''):
\* the leftmost opening piece that a closing piece follows, up to the nearest
\* closing piece; no g flag, so one match only; no match, no change
ReplaceStyleBlock(markup) ==
    LET Opens == {i \in 1..Len(markup) :
                     /\ markup[i] = ReservedOpen
                     /\ \E j \in (i + 1)..Len(markup) : markup[j] = StyleClose}
    IN  IF Opens = {} THEN markup
        ELSE LET i == CHOOSE a \in Opens : \A b \in Opens : a <= b
                 j == CHOOSE a \in (i + 1)..Len(markup) :
                         /\ markup[a] = StyleClose
                         /\ \A b \in (i + 1)..(a - 1) : markup[b] # StyleClose
             IN  SubSeq(markup, 1, i - 1) \o SubSeq(markup, j + 1, Len(markup))

\* the strip step run on a markup string
stripOnce ==
    /\ strip.n = 0
    /\ strip' = [strip EXCEPT !.once = ReplaceStyleBlock(strip.markup), !.n = 1]
    /\ UNCHANGED <<llm, color, batch, screenVars>>
    /\ StoreStep("strip")

\* the strip step run on its own result
stripAgain ==
    /\ strip.n = 1
    /\ strip' = [strip EXCEPT !.twice = ReplaceStyleBlock(strip.once), !.n = 2]
    /\ UNCHANGED <<llm, color, batch, screenVars>>
    /\ StoreStep("stripAgain")

InitStrip ==
    /\ InitEditorIdle
    /\ llm = NoResponse
    /\ \E markup \in Markups : strip = [NoStrip EXCEPT !.markup = markup]
    /\ color = NoColor
    /\ batch = NoBatch
    /\ InitScreensIdle

NextStrip == stripOnce \/ stripAgain

SpecStrip == InitStrip /\ [][NextStrip]_vars

\* ------------------------------------------------------------- screensStore
MaxVersions == 3
MaxScreens == 2

\* currentVersionId: undefined
NoVersionId == <<>>

\* a CapturedScreen without edits; versions: undefined is written <<>>
Screen(id, name, filePath) ==
    [id |-> id, name |-> name, filePath |-> filePath, editedHtml |-> NoHtml,
     versions |-> <<>>, currentVersionId |-> NoVersionId]

\* the first two of the five captured screens
MOCK_SCREENS ==
    <<Screen(<<"screen", 1>>, "GetVoxel.ai Demo App - Screen 1",
             "/src/mock-captures/screens/1.html"),
      Screen(<<"screen", 2>>, "GetVoxel.ai Demo App - Screen 2",
             "/src/mock-captures/screens/2.html")>>

IsMock(id) == \E i \in 1..Len(MOCK_SCREENS) : MOCK_SCREENS[i].id = id

\* screens.find((s) => s.id === id): its index, 0: undefined
FindScreen(screens, id) ==
    IF \E i \in 1..Len(screens) : screens[i].id = id
    THEN CHOOSE i \in 1..Len(screens) :
             screens[i].id = id /\ \A j \in 1..(i - 1) : screens[j].id # id
    ELSE 0

\* a row of the screens table
Row(id, name, html) == [id |-> id, name |-> name, file_path |-> "", html |-> html]

\* the row as a CapturedScreen: no versions, no currentVersionId
FromRow(row) ==
    [id |-> row.id, name |-> row.name, filePath |-> row.file_path,
     editedHtml |-> row.html, versions |-> <<>>, currentVersionId |-> NoVersionId]

\* what fetchFromSupabase sets: "noUser", "rows"
Fetched(outcome) ==
    IF outcome = "noUser" \/ supabase.rows = <<>>
    THEN MOCK_SCREENS
    ELSE [i \in 1..Len(supabase.rows) |-> FromRow(supabase.rows[i])]

\* initializeScreens' fallback: the mock screens with the edits of the
\* existing ones, then the existing screens that are no mock screens
IsCustom(s) == ~IsMock(s.id)

Merged(existingScreens) ==
    [i \in 1..Len(MOCK_SCREENS) |->
        LET k == FindScreen(existingScreens, MOCK_SCREENS[i].id)
        IN  IF k = 0 THEN MOCK_SCREENS[i]
            ELSE [MOCK_SCREENS[i] EXCEPT
                     !.editedHtml = existingScreens[k].editedHtml,
                     !.versions = existingScreens[k].versions,
                     !.currentVersionId = existingScreens[k].currentVersionId]]
    \o SelectSeq(existingScreens, IsCustom)

\* the outcomes of a read of the screens table, of a write to the backend
FetchOutcomes == IF supabase.user THEN {"rows", "error"} ELSE {"noUser", "error"}
WriteOutcomes == IF supabase.configured THEN {"ok", "error", "thrown"} ELSE {"none"}
WriteFailures == {"error", "thrown"}

\* ------------------------------------------------- Editor: the load effect
\* the file behind filePath; '' is the page's own address
Served(filePath) == [styles |-> 0, body |-> <<Elem("h1", filePath)>>]

\* the body of a response whose status is not ok: empty, or an error page
ErrorBodies == {NoHtml, [styles |-> 0, body |-> <<Elem("pre", "Not Found")>>]}

\* the placeholder: title and heading carry the name
Placeholder(name) ==
    [styles |-> 0,
     body |-> <<Elem("h1", name),
                Elem("p", "Edit this screen using the AI prompt or visual editor.")>>]

\* the load effect, run when screen?.id is another one than at its last run
LoadEffect(page, screens) ==
    LET i == FindScreen(screens, page.screenId)
        dep == IF i = 0 THEN <<>> ELSE screens[i].id
    IN  IF page.screenId = <<>> \/ dep = page.dep
        THEN [page |-> page, load |-> FALSE, html |-> NoHtml]
        ELSE IF i = 0
        THEN [page |-> [page EXCEPT !.dep = dep], load |-> FALSE, html |-> NoHtml]
        ELSE IF Truthy(screens[i].editedHtml)
        THEN [page |-> [page EXCEPT !.dep = dep, !.loading = FALSE,
                                    !.lastFetch = "none"],
              load |-> TRUE, html |-> screens[i].editedHtml]
        ELSE [page |-> [page EXCEPT
                           !.dep = dep, !.loading = TRUE, !.lastFetch = "none",
                           !.fetches = @ \cup {[id |-> screens[i].id,
                                                name |-> screens[i].name,
                                                filePath |-> screens[i].filePath]}],
              load |-> FALSE, html |-> NoHtml]

\* loadScreen(id, name, html) of the editor store, and the iframe written from it
LoadScreen(html) ==
    /\ currentHtml' = html
    /\ tree' = IframeWrite(html)

\* the render that follows a change of the route or of the store
Render(page, screens) ==
    LET r == LoadEffect(page, screens)
    IN  /\ editorPage' = r.page
        /\ IF r.load THEN LoadScreen(r.html) ELSE UNCHANGED <<tree, currentHtml>>

\* a step of the screens pages
ScreensStep(event) ==
    /\ IdleStep(event)
    /\ UNCHANGED <<llm, strip, color, batch>>

\* initializeScreens up to its first await
Initializing(st) ==
    IF st.isInitialized \/ st.initializing THEN st
    ELSE IF supabase.configured
    THEN [st EXCEPT !.isLoading = TRUE, !.initializing = TRUE,
                    !.existingScreens = st.screens]
    ELSE [st EXCEPT !.screens = Merged(st.screens), !.isInitialized = TRUE,
                    !.isLoading = FALSE]

\* the Screens page mounts: initializeScreens
initializeScreens ==
    /\ ~screensStore.isInitialized /\ ~screensStore.initializing
    /\ screensStore' = Initializing(screensStore)
    /\ Render(editorPage, screensStore'.screens)
    /\ UNCHANGED supabase
    /\ ScreensStep("initializeScreens")

\* the Editor page mounts at /editor/:screenId: initializeScreens, the load effect
openEditor(id) ==
    /\ editorPage.screenId = <<>>
    /\ screensStore' = Initializing(screensStore)
    /\ Render([NoEditorPage EXCEPT !.screenId = id, !.loading = TRUE],
              screensStore'.screens)
    /\ UNCHANGED supabase
    /\ ScreensStep("openEditor")

\* initializeScreens after await get().fetchFromSupabase(), or in its catch
initializeScreensSettle(outcome) ==
    /\ screensStore.initializing
    /\ outcome \in FetchOutcomes
    /\ screensStore' =
          [screensStore EXCEPT
              !.screens = IF outcome = "error" THEN Merged(screensStore.existingScreens)
                          ELSE Fetched(outcome),
              !.isInitialized = TRUE, !.isLoading = FALSE, !.initializing = FALSE,
              !.existingScreens = <<>>]
    /\ Render(editorPage, screensStore'.screens)
    /\ UNCHANGED supabase
    /\ ScreensStep("initialized")

\* the store's fetchFromSupabase; on an error it throws and sets nothing
fetchFromSupabase(outcome) ==
    /\ supabase.configured
    /\ outcome \in FetchOutcomes
    /\ screensStore' = IF outcome = "error" THEN screensStore
                       ELSE [screensStore EXCEPT !.screens = Fetched(outcome)]
    /\ Render(editorPage, screensStore'.screens)
    /\ UNCHANGED supabase
    /\ ScreensStep("fetchFromSupabase")

\* the html of an uploaded file
UploadHtmls == {InitialHtml("p")}

\* uploadScreen(file): the new screen comes first, with its initial version
uploadScreen(html, outcome) ==
    /\ Len(screensStore.screens) < MaxScreens
    /\ screensStore.now < MaxVersions
    /\ outcome \in IF supabase.user THEN WriteOutcomes ELSE {"none"}
    /\ LET now == screensStore.now
           id == IF outcome = "ok" THEN <<"db", now>> ELSE <<"upload", now>>
           newScreen == [Screen(id, "upload.html", "") EXCEPT
                            !.editedHtml = html,
                            !.versions = <<[id |-> <<"version", now>>, html |-> html]>>]
       IN  /\ screensStore' =
                 [screensStore EXCEPT !.screens = <<newScreen>> \o @, !.now = now + 1]
           /\ supabase' =
                 [supabase EXCEPT
                     !.rows = IF outcome = "ok"
                              THEN <<Row(id, "upload.html", html)>> \o @ ELSE @]
    /\ Render(editorPage, screensStore'.screens)
    /\ ScreensStep("uploadScreen")

\* set(...) of saveScreenVersion: the version appended, the active content set
WithVersion(screens, screenId, version) ==
    [i \in 1..Len(screens) |->
        IF screens[i].id = screenId
        THEN [screens[i] EXCEPT !.editedHtml = version.html,
                                !.versions = Append(@, version),
                                !.currentVersionId = version.id]
        ELSE screens[i]]

\* the screens table after update({ html }).eq('id', screenId)
WithRowHtml(rows, screenId, html) ==
    [i \in 1..Len(rows) |->
        IF rows[i].id = screenId THEN [rows[i] EXCEPT !.html = html] ELSE rows[i]]

\* saveScreenVersion(screenId, html): a failed write is logged, never thrown
SaveScreenVersion(screenId, html, outcome) ==
    LET now == screensStore.now
        version == [id |-> IF outcome = "ok" THEN <<"db-version", now>>
                           ELSE <<"version", now>>,
                    html |-> html]
    IN  /\ screensStore' =
              [screensStore EXCEPT !.screens = WithVersion(@, screenId, version),
                                   !.now = now + 1]
        /\ supabase' =
              [supabase EXCEPT
                  !.rows = IF outcome = "ok" THEN WithRowHtml(@, screenId, html) ELSE @]

\* the html a caller of the store hands over
VersionHtmls == {InitialHtml("h1"), InitialHtml("p")}

saveScreenVersion(i, html, outcome) ==
    /\ i \in 1..Len(screensStore.screens)
    /\ screensStore.now < MaxVersions
    /\ outcome \in WriteOutcomes
    /\ SaveScreenVersion(screensStore.screens[i].id, html, outcome)
    /\ UNCHANGED <<editorPage, tree, currentHtml>>
    /\ ScreensStep("saveScreenVersion")

\* restoreVersion(screenId, versionId)
restoreVersion(i, k) ==
    /\ i \in 1..Len(screensStore.screens)
    /\ k \in 1..Len(screensStore.screens[i].versions)
    /\ LET version == screensStore.screens[i].versions[k]
       IN  screensStore' =
              [screensStore EXCEPT !.screens[i].editedHtml = version.html,
                                   !.screens[i].currentVersionId = version.id]
    /\ UNCHANGED <<supabase, editorPage, tree, currentHtml>>
    /\ ScreensStep("restoreVersion")

\* the updates the store sends on to the backend: a name, an html
ScreenUpdates == {[name |-> "Renamed"], [editedHtml |-> InitialHtml("p")]}

\* updateScreen(id, updates): { ...s, ...updates }
updateScreen(i, updates) ==
    /\ i \in 1..Len(screensStore.screens)
    /\ LET s == screensStore.screens[i]
           named == IF "name" \in DOMAIN updates
                    THEN [s EXCEPT !.name = updates.name] ELSE s
           edited == IF "editedHtml" \in DOMAIN updates
                     THEN [named EXCEPT !.editedHtml = updates.editedHtml] ELSE named
       IN  /\ screensStore' = [screensStore EXCEPT !.screens[i] = edited]
           /\ \E outcome \in WriteOutcomes :
                 supabase' =
                    [supabase EXCEPT
                        !.rows = IF outcome = "ok"
                                 THEN [r \in 1..Len(@) |->
                                          IF @[r].id = s.id
                                          THEN [id |-> s.id, name |-> edited.name,
                                                file_path |-> @[r].file_path,
                                                html |-> IF Truthy(edited.editedHtml)
                                                         /\ "editedHtml" \in DOMAIN updates
                                                         THEN edited.editedHtml
                                                         ELSE @[r].html]
                                          ELSE @[r]]
                                 ELSE @]
    /\ UNCHANGED <<editorPage, tree, currentHtml>>
    /\ ScreensStep("updateScreen")

\* message.success and the beginning of message.error in handleSave
ChangesSaved == "Changes saved!"
SaveFailed == "Save failed: "

\* handleSave: saveScreenVersion returns, then saveChanges and message.success;
\* its catch is reached by no outcome of saveScreenVersion
handleSave(outcome) ==
    /\ editorPage.screenId # <<>> /\ Truthy(currentHtml)
    /\ screensStore.now < MaxVersions
    /\ outcome \in WriteOutcomes
    /\ SaveScreenVersion(editorPage.screenId, currentHtml, outcome)
    /\ editorPage' = [editorPage EXCEPT !.saveChangesCalled = TRUE,
                                        !.message = ChangesSaved,
                                        !.lastWrite = outcome]
    /\ UNCHANGED <<tree, currentHtml>>
    /\ ScreensStep("save")

\* getNextScreen / getPreviousScreen of the route's screen
Neighbours ==
    LET screens == screensStore.screens
        i == FindScreen(screens, editorPage.screenId)
    IN  IF i = 0 THEN {}
        ELSE {screens[j].id : j \in {i - 1, i + 1} \cap (1..Len(screens))}

\* handleNavigateToScreen(targetScreenId), nothing unsaved
handleNavigateToScreen(target) ==
    /\ target \in Neighbours
    /\ editorPage.fetches = {}
    /\ Render([editorPage EXCEPT !.screenId = target, !.message = "none",
                                 !.lastWrite = "none", !.saveChangesCalled = FALSE],
              screensStore.screens)
    /\ UNCHANGED <<screensStore, supabase>>
    /\ ScreensStep("navigate")

\* fetch(screen.filePath) settles: .then(res.text()).then(...) or .catch(...)
FetchSettles == {"ok", "notOk", "rejected"}

fetchSettle(f, outcome, body) ==
    /\ f \in editorPage.fetches
    /\ outcome \in FetchSettles
    /\ body \in ErrorBodies
    /\ outcome # "notOk" => body = NoHtml
    /\ editorPage' = [editorPage EXCEPT !.fetches = @ \ {f}, !.loading = FALSE,
                                        !.lastFetch = outcome]
    /\ LoadScreen(IF outcome = "ok" THEN Served(f.filePath)
                  ELSE IF outcome = "notOk" THEN body
                  ELSE Placeholder(f.name))
    /\ UNCHANGED <<screensStore, supabase>>
    /\ ScreensStep("fetched")

\* the backend the build is configured with, the session, the screens table
Backends ==
    {NoSupabase}
    \cup {[configured |-> TRUE, user |-> user, rows |-> rows] :
             user \in BOOLEAN,
             rows \in {<<>>, <<Row(<<"db", 0>>, "Landing", NoHtml)>>,
                       <<Row(<<"db", 0>>, "Landing", InitialHtml("p"))>>}}

\* the addresses the Editor is opened at
RouteIds == {<<"screen", 1>>, <<"db", 0>>}

InitScreens ==
    /\ currentHtml = NoHtml
    /\ tree = IframeWrite(currentHtml)
    /\ InitIdleControls
    /\ llm = NoResponse
    /\ strip = NoStrip
    /\ color = NoColor
    /\ batch = NoBatch
    /\ screensStore = InitialScreensStore
    /\ supabase \in Backends
    /\ editorPage = NoEditorPage

NextScreens ==
    \/ initializeScreens
    \/ \E outcome \in {"noUser", "rows", "error"} : initializeScreensSettle(outcome)
    \/ \E outcome \in {"noUser", "rows", "error"} : fetchFromSupabase(outcome)
    \/ \E html \in UploadHtmls, outcome \in {"none", "ok", "error", "thrown"} :
          uploadScreen(html, outcome)
    \/ \E i \in 1..MaxScreens, html \in VersionHtmls,
          outcome \in {"none", "ok", "error", "thrown"} :
          saveScreenVersion(i, html, outcome)
    \/ \E i \in 1..MaxScreens, k \in 1..MaxVersions : restoreVersion(i, k)
    \/ \E updates \in ScreenUpdates : updateScreen(1, updates)

\* the store under the Screens page
SpecScreens == InitScreens /\ [][NextScreens]_vars

NextSave ==
    \/ \E id \in RouteIds : openEditor(id)
    \/ \E outcome \in {"noUser", "rows", "error"} : initializeScreensSettle(outcome)
    \/ \E f \in editorPage.fetches, outcome \in FetchSettles, body \in ErrorBodies :
          fetchSettle(f, outcome, body)
    \/ \E outcome \in {"none", "ok", "error", "thrown"} : handleSave(outcome)

\* the Editor page: a screen is loaded and saved
SpecSave == InitScreens /\ [][NextSave]_vars

NextLoad ==
    \/ \E id \in RouteIds : openEditor(id)
    \/ \E outcome \in {"noUser", "rows", "error"} : initializeScreensSettle(outcome)
    \/ \E target \in RouteIds \cup {<<"screen", 2>>} : handleNavigateToScreen(target)
    \/ \E f \in editorPage.fetches, outcome \in FetchSettles, body \in ErrorBodies :
          fetchSettle(f, outcome, body)

\* the Editor page: screens are loaded; a request that was sent settles
SpecLoad ==
    /\ InitScreens
    /\ [][NextLoad]_vars
    /\ WF_vars(\E outcome \in {"noUser", "rows", "error"} :
                  initializeScreensSettle(outcome))
    /\ WF_vars(\E f \in editorPage.fetches, outcome \in FetchSettles,
                  body \in ErrorBodies : fetchSettle(f, outcome, body))

\* handleNavigateToScreen(targetScreenId) while the fetch of the load effect
\* is still awaited: the buttons are rendered next to the spinner, and the
\* effect has no cleanup, so the fetch of the screen left behind stays
handleNavigateWhileLoading(target) ==
    /\ target \in Neighbours
    /\ editorPage.fetches # {}
    /\ Render([editorPage EXCEPT !.screenId = target, !.message = "none",
                                 !.lastWrite = "none", !.saveChangesCalled = FALSE],
              screensStore.screens)
    /\ UNCHANGED <<screensStore, supabase>>
    /\ ScreensStep("navigateWhileLoading")

NextRoute ==
    \/ \E id \in RouteIds : openEditor(id)
    \/ \E outcome \in {"noUser", "rows", "error"} : initializeScreensSettle(outcome)
    \/ \E target \in RouteIds \cup {<<"screen", 2>>} : handleNavigateToScreen(target)
    \/ \E target \in RouteIds \cup {<<"screen", 2>>} :
          handleNavigateWhileLoading(target)
    \/ \E f \in editorPage.fetches, outcome \in FetchSettles, body \in ErrorBodies :
          fetchSettle(f, outcome, body)
    \/ \E outcome \in {"none", "ok", "error", "thrown"} : handleSave(outcome)

\* the Editor page: the user goes from screen to screen at any time, and saves
SpecRoute == InitScreens /\ [][NextRoute]_vars

\* ------------------------- the screens store of unnamed/part_007: selectedIds
MaxUploads == 2

\* the first two of its five captured screens
BatchMockScreens ==
    <<[id |-> <<"mock-screen", 1>>, isMock |-> TRUE],
      [id |-> <<"mock-screen", 2>>, isMock |-> TRUE]>>

\* state.screens.map(s => s.id); array.filter is SelectSeq
ScreenIds(screens) == [i \in 1..Len(screens) |-> screens[i].id]

\* array.includes(x)
IncludesId(seq, x) == \E i \in 1..Len(seq) : seq[i] = x

NonMock(sc) == ~sc.isMock

\* a step of the Screens page of unnamed/part_007
BatchStep(event) ==
    /\ UNCHANGED <<llm, strip, color, screenVars>>
    /\ StoreStep(event)

\* initializeScreens without a backend: the persisted screens, the mock screens
\* when the user has added nothing yet
batchInitializeScreens ==
    /\ ~batch.isInitialized
    /\ batch' =
          [batch EXCEPT
              !.screens = IF ~batch.hasUserData /\ batch.screens = <<>>
                          THEN BatchMockScreens
                          ELSE IF batch.hasUserData THEN SelectSeq(batch.screens, NonMock)
                          ELSE batch.screens,
              !.isInitialized = TRUE]
    /\ BatchStep("initializeScreens")

\* uploadScreen: the new screen first, the mock screens dropped; its id is the
\* local one or, the row having been inserted, the row id
batchUploadScreen(inserted) ==
    /\ batch.isInitialized
    /\ batch.now <= MaxUploads
    /\ LET newScreen == [id |-> IF inserted THEN <<"db", batch.now>>
                                ELSE <<"screen", batch.now>>,
                         isMock |-> FALSE]
       IN  batch' = [batch EXCEPT
                        !.screens = <<newScreen>> \o SelectSeq(batch.screens, NonMock),
                        !.hasUserData = TRUE,
                        !.now = @ + 1]
    /\ BatchStep("uploadScreen")

removeScreen(id) ==
    /\ batch.isInitialized
    /\ LET Other(x) == x # id
           OtherScreen(sc) == sc.id # id
       IN  batch' = [batch EXCEPT
                        !.screens = SelectSeq(batch.screens, OtherScreen),
                        !.selectedIds = SelectSeq(batch.selectedIds, Other),
                        !.hasUserData = TRUE]
    /\ BatchStep("removeScreen")

removeScreens(ids) ==
    /\ batch.isInitialized
    /\ LET Kept(sc) == sc.id \notin ids
       IN  batch' = [batch EXCEPT
                        !.screens = SelectSeq(batch.screens, Kept),
                        !.selectedIds = <<>>,
                        !.hasUserData = TRUE]
    /\ BatchStep("removeScreens")

clearMockScreens ==
    /\ batch.isInitialized
    /\ batch' = [batch EXCEPT !.screens = SelectSeq(batch.screens, NonMock),
                              !.hasUserData = TRUE]
    /\ BatchStep("clearMockScreens")

toggleSelectScreen(id) ==
    /\ batch.isInitialized
    /\ LET Other(x) == x # id
       IN  batch' = [batch EXCEPT
                        !.selectedIds = IF IncludesId(batch.selectedIds, id)
                                        THEN SelectSeq(batch.selectedIds, Other)
                                        ELSE Append(batch.selectedIds, id)]
    /\ BatchStep("toggleSelectScreen")

selectAllScreens ==
    /\ batch.isInitialized
    /\ batch' = [batch EXCEPT !.selectedIds = ScreenIds(batch.screens)]
    /\ BatchStep("selectAllScreens")

clearSelection ==
    /\ batch.isInitialized
    /\ batch' = [batch EXCEPT !.selectedIds = <<>>]
    /\ BatchStep("clearSelection")

\* the ids of the cards on the page
CardIds == {batch.screens[i].id : i \in 1..Len(batch.screens)}

InitBatch ==
    /\ InitEditorIdle
    /\ llm = NoResponse
    /\ strip = NoStrip
    /\ color = NoColor
    /\ batch = NoBatch
    /\ InitScreensIdle

NextBatch ==
    \/ batchInitializeScreens
    \/ \E inserted \in BOOLEAN : batchUploadScreen(inserted)
    \/ \E id \in CardIds : removeScreen(id)
    \/ \E ids \in SUBSET CardIds : ids # {} /\ removeScreens(ids)
    \/ clearMockScreens
    \/ \E id \in CardIds : toggleSelectScreen(id)
    \/ selectAllScreens
    \/ clearSelection

SpecBatch == InitBatch /\ [][NextBatch]_vars

\* ------------------------------------------------------------- rgbToHex
Digits == <<"0", "1", "2", "3", "4", "5", "6", "7", "8", "9">>
HexDigits == Digits \o <<"a", "b", "c", "d", "e", "f">>
IsDigit(c) == \E d \in 1..Len(Digits) : Digits[d] = c
DigitValue(c) == (CHOOSE d \in 1..Len(Digits) : Digits[d] = c) - 1

\* the decimal numeral of n, as the browser writes a channel
RECURSIVE Numeral(_)
Numeral(n) ==
    IF n < 10 THEN <<Digits[n + 1]>> ELSE Append(Numeral(n \div 10), Digits[(n % 10) + 1])

\* x.toString(16)
RECURSIVE ToString16(_)
ToString16(x) ==
    IF x < 16 THEN <<HexDigits[x + 1]>>
    ELSE Append(ToString16(x \div 16), HexDigits[(x % 16) + 1])

\* str.padStart(2, '0')
PadStart2(str) == IF Len(str) < 2 THEN <<"0">> \o str ELSE str

\* (\d+) at position k: the position after the last digit, k when there is none
RECURSIVE DigitsEnd(_, _)
DigitsEnd(str, k) ==
    IF k <= Len(str) /\ IsDigit(str[k]) THEN DigitsEnd(str, k + 1) ELSE k

\* \s* at position k: the position after the white space
RECURSIVE SpaceEnd(_, _)
SpaceEnd(str, k) ==
    IF k <= Len(str) /\ str[k] \in WhiteSpace THEN SpaceEnd(str, k + 1) ELSE k

\* parseInt of a run of digits
RECURSIVE ParseInt(_)
ParseInt(ds) ==
    IF ds = <<>> THEN 0
    ELSE 10 * ParseInt(SubSeq(ds, 1, Len(ds) - 1)) + DigitValue(ds[Len(ds)])

\* rgb.match(/rgba?\((\d+),\s*(\d+),\s*(\d+)/) from position k on:
\* the three captured runs of digits, <<>> for no match at k
MatchAt(str, k) ==
    LET Is(j, c) == j <= Len(str) /\ str[j] = c
        a == IF Is(k + 3, "a") THEN k + 4 ELSE k + 3
        r1 == a + 1
        r2 == DigitsEnd(str, r1)
        g1 == SpaceEnd(str, r2 + 1)
        g2 == DigitsEnd(str, g1)
        b1 == SpaceEnd(str, g2 + 1)
        b2 == DigitsEnd(str, b1)
    IN  IF /\ Is(k, "r") /\ Is(k + 1, "g") /\ Is(k + 2, "b") /\ Is(a, "(")
           /\ r2 > r1 /\ Is(r2, ",") /\ g2 > g1 /\ Is(g2, ",") /\ b2 > b1
        THEN <<SubSeq(str, r1, r2 - 1), SubSeq(str, g1, g2 - 1), SubSeq(str, b1, b2 - 1)>>
        ELSE <<>>

\* the leftmost match
Match(str) ==
    LET At == {k \in 1..Len(str) : MatchAt(str, k) # <<>>}
    IN  IF At = {} THEN <<>>
        ELSE MatchAt(str, CHOOSE k \in At : \A j \in At : k <= j)

Transparent == <<"t", "r", "a", "n", "s", "p", "a", "r", "e", "n", "t">>
TransparentBlack ==
    <<"r", "g", "b", "a", "(", "0", ",", " ", "0", ",", " ", "0", ",", " ", "0", ")">>

rgbToHex(rgb) ==
    IF StartsWith(rgb, <<"#">>) THEN rgb
    ELSE IF rgb = Transparent \/ rgb = TransparentBlack THEN Transparent
    ELSE LET match == Match(rgb)
         IN  IF match = <<>> THEN rgb
             ELSE <<"#">> \o PadStart2(ToString16(ParseInt(match[1])))
                         \o PadStart2(ToString16(ParseInt(match[2])))
                         \o PadStart2(ToString16(ParseInt(match[3])))

\* the computed color forms of the browser
Rgb(r, g, b) ==
    <<"r", "g", "b", "(">> \o Numeral(r) \o <<",", " ">> \o Numeral(g)
        \o <<",", " ">> \o Numeral(b) \o <<")">>
Rgba(r, g, b, alpha) ==
    <<"r", "g", "b", "a", "(">> \o Numeral(r) \o <<",", " ">> \o Numeral(g)
        \o <<",", " ">> \o Numeral(b) \o <<",", " ">> \o alpha \o <<")">>

\* channels at the ends of the range and around the one-digit hex values
Channels == {0, 9, 10, 15, 16, 255}
Alphas == {<<"0">>, <<"0", ".", "5">>}

\* what the property panel hands to rgbToHex
Colors ==
    {Rgb(r, g, b) : r \in Channels, g \in Channels, b \in Channels}
    \cup {Rgba(c[1], c[2], c[3], alpha) :
             c \in Channels \X Channels \X Channels, alpha \in Alphas}
    \cup {Transparent, <<"#", "0", "0", "0", "0", "0", "0">>, <<"#", "F", "F", "F">>}

\* the property panel renders a color field
renderColor ==
    /\ ~color.converted
    /\ color' = [color EXCEPT !.hex = rgbToHex(color.rgb), !.converted = TRUE]
    /\ UNCHANGED <<llm, strip, batch, screenVars>>
    /\ StoreStep("rgbToHex")

InitColor ==
    /\ InitEditorIdle
    /\ llm = NoResponse
    /\ strip = NoStrip
    /\ batch = NoBatch
    /\ InitScreensIdle
    /\ \E rgb \in Colors : color = [NoColor EXCEPT !.rgb = rgb]

NextColor == renderColor

SpecColor == InitColor /\ [][NextColor]_vars

\* ------------------------------------------ VisualEditor of unnamed/part_006
\* the Documents the screen of the older editor is loaded with
LegacyInitialHtml(tag) ==
    [styles |-> 0, body |-> <<Elem("h1", "Hi"), Elem(tag, IF tag = "img" THEN "" ELSE "Hi")>>]

InitLegacy ==
    /\ \E tag \in Tags : currentHtml = LegacyInitialHtml(tag)
    /\ tree = IframeWrite(currentHtml)
    /\ storeSel = "null"
    /\ panelEl = NoPanel
    /\ toolbar = InitialToolbar
    /\ focus = 0
    /\ pending = 0
    /\ refPending = FALSE
    /\ editorMode = "select"
    /\ imageModalOpen = FALSE
    /\ selectedElementRef = "null"
    /\ InitAux
    /\ ev = "load"
    /\ nUpd = 0
    /\ nCleared = 0
    /\ lastInput = <<>>
    /\ burst = 0
    /\ toolbarWas = FALSE

legacyHandleClickRoot ==
    /\ UNCHANGED auxVars
    /\ UNCHANGED selectedElementRef
    /\ UNCHANGED imageModalOpen
    /\ focus = 0
    /\ storeSel' = "null"
    /\ ev' = "clickRoot"
    /\ nUpd' = 0
    /\ nCleared' = 0
    /\ UNCHANGED <<tree, currentHtml, panelEl, toolbar, focus, pending, refPending,
                   editorMode>>
    /\ KeepHistory

\* target.childNodes.length === 1 && target.childNodes[0].nodeType === Node.TEXT_NODE
OnlyTextChild(e) == e.tag # "img" /\ e.text # ""

legacyHandleClick(i) ==
    /\ UNCHANGED auxVars
    /\ UNCHANGED selectedElementRef
    /\ UNCHANGED imageModalOpen
    /\ i \in Idx(tree)
    /\ focus \in {0, i}
    /\ LET editable == editorMode = "edit" /\ OnlyTextChild(tree.body[i])
       IN  /\ tree' = [tree EXCEPT !.body =
                         [ClearSelected(@) EXCEPT ![i].sel = TRUE,
                                                  ![i].ce = @ \/ editable]]
           /\ focus' = IF editable \/ tree.body[i].ce THEN i ELSE focus
    /\ storeSel' = tree.body[i].tag
    /\ ev' = "click"
    /\ nUpd' = 0
    /\ nCleared' = 0
    /\ UNCHANGED <<currentHtml, panelEl, toolbar, pending, refPending, editorMode>>
    /\ KeepHistory

\* keydown, Delete or Backspace: the markup goes to updateHtml as it is
legacyHandleKeyDownDelete ==
    /\ UNCHANGED auxVars
    /\ UNCHANGED selectedElementRef
    /\ UNCHANGED imageModalOpen
    /\ ev' = "keyDelete"
    /\ LET s == QuerySelected(tree)
       IN  IF s # 0 /\ ~tree.body[s].ce
           THEN LET t == [tree EXCEPT !.body = RemoveAt(@, s)]
                IN  /\ storeSel' = "null"
                    /\ UpdateHtml(OuterHTML(t), t, pending, refPending, panelEl,
                                  IF focus = s THEN 0
                                  ELSE IF focus > s THEN focus - 1 ELSE focus, 0)
           ELSE /\ nUpd' = 0
                /\ nCleared' = 0
                /\ UNCHANGED <<tree, currentHtml, storeSel, panelEl, focus,
                               pending, refPending>>
    /\ UNCHANGED <<toolbar, editorMode>>
    /\ KeepHistory

legacyHandleKeyDownEscape ==
    /\ UNCHANGED auxVars
    /\ UNCHANGED selectedElementRef
    /\ UNCHANGED imageModalOpen
    /\ tree' = [tree EXCEPT !.body = [i \in 1..Len(@) |-> [@[i] EXCEPT !.ce = FALSE]]]
    /\ storeSel' = "null"
    /\ ev' = "escape"
    /\ nUpd' = 0
    /\ nCleared' = 0
    /\ UNCHANGED <<currentHtml, panelEl, toolbar, focus, pending, refPending,
                   editorMode>>
    /\ KeepHistory

\* the mode switch of the top bar: editorMode is a dependency of the effect
setEditorMode(m) ==
    /\ UNCHANGED auxVars
    /\ UNCHANGED selectedElementRef
    /\ UNCHANGED imageModalOpen
    /\ HostFocus
    /\ m # editorMode
    /\ editorMode' = m
    /\ tree' = IframeWrite(currentHtml)
    /\ pending' = ClearTimeout(pending, refPending)
    /\ refPending' = FALSE
    /\ panelEl' = Detach(panelEl)
    /\ focus' = 0
    /\ ev' = "setEditorMode"
    /\ nUpd' = 0
    /\ nCleared' = pending - ClearTimeout(pending, refPending)
    /\ UNCHANGED <<currentHtml, storeSel, toolbar>>
    /\ KeepHistory

NextLegacy ==
    \/ legacyHandleClickRoot
    \/ \E i \in Idx(tree) : legacyHandleClick(i)
    \/ \E txt \in TextValues : handleInput(txt)
    \/ debounceTimerFire
    \/ handleBlur
    \/ legacyHandleKeyDownDelete
    \/ legacyHandleKeyDownEscape
    \/ \E m \in {"select", "edit"} : setEditorMode(m)

SpecLegacy == InitLegacy /\ [][NextLegacy]_vars

\* ------------------------------------------------------------------ claims
Selected(t) == {i \in Idx(t) : t.body[i].sel}
Hovered(t) == {i \in Idx(t) : t.body[i].hov}
DeleteEvents == {"keyDelete", "toolbarDelete", "panelDelete"}
DuplicateEvents == {"toolbarDuplicate", "panelDuplicate"}

\* C1: the Document passed to updateHtml (the store's currentHtml) carries
\* neither data-voxel-selected nor data-voxel-hovered on any element.
C1_NoMarkersInDocument ==
    \A i \in Idx(currentHtml) : ~currentHtml.body[i].sel /\ ~currentHtml.body[i].hov

\* C2: no commit path passes a Document holding the voxel-editor-styles block,
\* and the LiveTree holds at most one such block.
C2_NoStyleBlockInDocument ==
    currentHtml.styles = 0 /\ tree.styles <= 1

\* C3: the Document passed to updateHtml never carries contenteditable.
C3_NoContentEditableInDocument ==
    \A i \in Idx(currentHtml) : ~currentHtml.body[i].ce

\* C4: at most one element of the LiveTree carries the selection marker and
\* at most one carries the hover marker.
C4_SingleMarkers ==
    Cardinality(Selected(tree)) <= 1 /\ Cardinality(Hovered(tree)) <= 1

\* C5: after a click on the root container or an Escape key press no element
\* of the LiveTree carries the selection marker.
C5_RootClickAndEscapeClearMarker ==
    ev \in {"clickRoot", "escape"} => Selected(tree) = {}

\* C6: a delete of the selected element (not under text editing), by key,
\* toolbar or panel, leaves no marked element, a null store selection and a
\* null panel element; a delete with nothing selected changes neither the
\* LiveTree nor the Document and issues no commit.
C6_DeleteClearsSelection ==
    [][ev' \in DeleteEvents =>
          LET s == QuerySelected(tree)
          IN  /\ (s # 0 /\ ~tree.body[s].ce) =>
                    /\ Selected(tree') = {}
                    /\ storeSel' = "null"
                    /\ panelEl'.kind = "null"
              /\ s = 0 =>
                    /\ tree' = tree
                    /\ currentHtml' = currentHtml
                    /\ nUpd' = 0]_vars

\* C7: while the selected element carries contenteditable, a delete by key,
\* toolbar or panel removes nothing and issues no commit.
C7_NoDeleteWhileEditing ==
    [][(ev' \in DeleteEvents /\ QuerySelected(tree) # 0
          /\ tree.body[QuerySelected(tree)].ce) =>
          (tree'.body = tree.body /\ nUpd' = 0)]_vars

\* C8: a duplicate of the selected element E leaves E marked, puts an unmarked
\* clone right after E and issues exactly one commit.
C8_DuplicateInsertsCloneAfterSelected ==
    [][(ev' \in DuplicateEvents /\ QuerySelected(tree) # 0) =>
          LET s == QuerySelected(tree)
          IN  /\ tree'.body = InsertAfter(tree.body, s, [tree.body[s] EXCEPT !.sel = FALSE])
              /\ tree'.body[s].sel
              /\ ~tree'.body[s + 1].sel
              /\ nUpd' = 1]_vars

\* C9: an input event issues no commit and leaves exactly one timer pending,
\* whatever timer was pending before; the timer's callback issues exactly one
\* commit, whose texts are those of the LiveTree at the last input event, and
\* leaves no timer pending.
C9_DebounceOneCommitLastContent ==
    /\ ev = "input" => (nUpd = 0 /\ pending = 1 /\ refPending)
    /\ ev = "timer" =>
          (nUpd = 1 /\ pending = 0 /\ ~refPending /\ Texts(currentHtml) = lastInput)

\* a burst of two or more input events has ended in the timer's commit
C9_Witness ==
    ev = "timer" /\ burst = 2 /\ nUpd = 1 /\ Texts(currentHtml) = lastInput

\* C10: a blur of the editable element while the timer of an input event is
\* pending issues exactly one commit, with the texts of the LiveTree at blur
\* time and without contenteditable on the element, and leaves no timer pending.
C10_BlurFlushesAndCancelsTimer ==
    [][(ev' = "blur" /\ focus \in Idx(tree) /\ tree.body[focus].ce /\ refPending) =>
          /\ nUpd' = 1
          /\ Texts(currentHtml') = Texts(tree)
          /\ ~currentHtml'.body[focus].ce
          /\ pending' = 0
          /\ ~refPending']_vars

\* a blur has cleared the pending timer of an input event and committed
C10_Witness ==
    ev = "blur" /\ nCleared = 1 /\ nUpd = 1 /\ pending = 0 /\ burst >= 1

\* C11: typed content is never dropped: a step that ends the pending debounce
\* timer of an input event, other than a delete or duplicate, issues one commit
\* whose texts are those of the LiveTree at the last input event, so the
\* Document reaches the final keystroke's content whatever is interleaved.
C11_TypedContentReachesDocument ==
    [][(refPending /\ ~refPending' /\ ev' \notin (DeleteEvents \cup DuplicateEvents)) =>
          (nUpd' = 1 /\ Texts(currentHtml') = lastInput)]_vars

PatchEvents == {"style", "attribute", "imageReplace"}

\* the patched field of an element, by the event that patched it
Patched(e, event) ==
    IF event = "style" THEN e.style ELSE IF event = "attribute" THEN e.attr ELSE e.src

\* C12: whatever was committed before, a property panel edit (style,
\* attribute, or image source on an image) of the selected element issues one
\* commit and the committed Document shows that element with the new value.
C12_PanelEditReachesDocument ==
    [][(/\ ev' \in PatchEvents
        /\ panelEl.kind # "null"
        /\ QuerySelected(tree) # 0
        /\ (ev' = "imageReplace" => tree.body[QuerySelected(tree)].tag = "img")) =>
          /\ nUpd' = 1
          /\ QuerySelected(tree) \in Idx(currentHtml')
          /\ Patched(currentHtml'.body[QuerySelected(tree)], ev') = lastPatch']_vars

\* C13: a commit issued by an interactive edit leaves the elements of the
\* LiveTree in place: the element reference taken at selection time is still
\* attached after the commit, unless the commit removed that very element.
C13_CommitKeepsElementIdentity ==
    [][(nUpd' = 1 /\ panelEl.kind = "live") =>
          \/ panelEl'.kind = "live"
          \/ /\ ev' \in DeleteEvents
             /\ ~(panelEl'.kind = "det" /\ panelEl'.parent)]_vars

Editing(t) == {i \in Idx(t) : t.body[i].ce}

\* C14: the editing-text state is entered (no element carried contenteditable,
\* one does now) only by the edit action, on the selected element, and only
\* when that element is text-bearing, never an image.
C14_EditingEnteredOnlyOnSelectedText ==
    [][(Editing(tree) = {} /\ Editing(tree') # {}) =>
          /\ ev' = "editText"
          /\ QuerySelected(tree) # 0
          /\ Editing(tree') = {QuerySelected(tree)}
          /\ tree.body[QuerySelected(tree)].tag # "img"]_vars

\* C15: a click that selects an element leaves the toolbar hidden, whatever
\* element it was open for; there is one toolbar state, so never two toolbars.
C15_ClickHidesToolbar ==
    [][ev' = "click" => ~toolbar'.visible]_vars

\* the toolbar was open for an element of one tag when a click selected an
\* element of another tag, and it is hidden now
C15_Witness ==
    /\ ev = "click"
    /\ toolbarWas
    /\ ~toolbar.visible
    /\ QuerySelected(tree) # 0
    /\ tree.body[QuerySelected(tree)].tag # toolbar.elementType

\* the toolbar's buttons: Edit Text, Change Image, Duplicate, Delete
ToolbarEvents == {"editText", "changeImage", "toolbarDuplicate", "toolbarDelete"}

\* C16: after any toolbar action (edit text, change image, duplicate, delete)
\* the toolbar is hidden.
C16_ToolbarActionHidesToolbar ==
    [][ev' \in ToolbarEvents => ~toolbar'.visible]_vars

\* C17: for every double-click position and container size the toolbar is
\* placed with x <= container width - 200 and y >= 10.
C17_ToolbarClamped ==
    [][ev' = "dblclick" =>
          /\ toolbar'.visible
          /\ toolbar'.x <= containerRect.width - ToolbarWidth
          /\ toolbar'.y >= ToolbarMinTop]_vars

\* a double-click right of and above the clamps: both clamps took effect
C17_Witness ==
    /\ ev = "dblclick"
    /\ toolbar.visible
    /\ toolbar.x = containerRect.width - ToolbarWidth
    /\ toolbar.y = ToolbarMinTop
    /\ \E clientX \in ClientXs, clientY \in ClientYs :
          /\ clientX - containerRect.left > toolbar.x
          /\ clientY - containerRect.top - ToolbarLift < toolbar.y

\* the element carrying the selection marker is an image
SelectedIsImage(t) ==
    QuerySelected(t) # 0 /\ t.body[QuerySelected(t)].tag = "img"

\* C18: replace-image while no image is selected (another element or nothing)
\* changes nothing in the LiveTree and issues no commit.
C18_ReplaceImageWithoutImageIsNoOp ==
    [][(ev' = "imageReplace" /\ ~SelectedIsImage(tree)) =>
          (tree' = tree /\ currentHtml' = currentHtml /\ nUpd' = 0)]_vars

\* the ends of a generate operation whose provider was not configured or
\* whose provider call failed
DegradedEnds == {"mockGenerated", "fallbackGenerated", "generateRejected"}

\* C19: with no provider configured, or a provider call that failed, the
\* generate operation of a non-empty instruction ends with a non-empty,
\* previewable result, the canned generator's result for that instruction.
C19_DegradedGenerateGivesCannedResult ==
    [][ev' \in DegradedEnds =>
          /\ Previewable(aiPanel'.generatedHtml)
          /\ aiPanel'.generatedHtml = getMockResponse(aiPanel'.ended.prompt)]_vars

\* the generation's history entry tells a canned result from a provider's
TaggedAsMock(panel) ==
    LET h == panel.generationHistory
    IN  /\ h # <<>>
        /\ h[Len(h)].prompt = panel.ended.prompt
        /\ h[Len(h)].flag # HistoryFlag

\* C20: with no provider configured, "add a button" gives a non-error result
\* whose html has a <button element and which is tagged as a mock response.
C20_AddAButtonGivesTaggedMockButton ==
    [][(ev' = "mockGenerated" /\ aiPanel'.ended.prompt = AddAButton) =>
          /\ ~aiPanel'.ended.error
          /\ Previewable(aiPanel'.generatedHtml)
          /\ ContainsTag(aiPanel'.generatedHtml, "button")
          /\ TaggedAsMock(aiPanel')]_vars

\* the events that produce or drop a generated result
PreviewEvents ==
    {"generate", "mockGenerated", "generated", "fallbackGenerated",
     "generateRejected", "pickComponent", "discard"}

\* C21: generating a result (provider, canned generator, component pick) and
\* discarding it leave the Document alone; apply appends exactly one container
\* marked data-voxel-generated, holding the result, to the end of the body and
\* clears the preview.
C21_OnlyApplyChangesDocument ==
    [][/\ ev' \in PreviewEvents => currentHtml' = currentHtml
       /\ ev' = "apply" =>
             /\ currentHtml'.styles = currentHtml.styles
             /\ currentHtml'.body =
                   Append(currentHtml.body, Wrapper(aiPanel.generatedHtml))
             /\ currentHtml'.body[Len(currentHtml'.body)].gen
             /\ \A i \in 1..Len(currentHtml.body) :
                   currentHtml'.body[i].gen = currentHtml.body[i].gen
             /\ aiPanel'.generatedHtml = NullHtml]_vars

\* the canned button was applied: the Document ends with the one generated
\* container, around the button, and the preview is empty
C21_Witness ==
    /\ ev = "apply"
    /\ Len(currentHtml.body) = 2
    /\ ~currentHtml.body[1].gen
    /\ currentHtml.body[2].gen
    /\ currentHtml.body[2].inner = MOCK_AI_RESPONSES.button
    /\ aiPanel.generatedHtml = NullHtml

\* C22: a result applied after commits made while its request was in flight
\* goes onto the Document of apply time, not the one sent with the request.
C22_ApplyUsesDocumentAtApplyTime ==
    [][(ev' = "apply" /\ aiPanel.ended.sentHtml # currentHtml) =>
          /\ Len(currentHtml'.body) = Len(currentHtml.body) + 1
          /\ SubSeq(currentHtml'.body, 1, Len(currentHtml.body)) = currentHtml.body
          /\ currentHtml'.styles = currentHtml.styles]_vars

\* the panel set a style while the request was in flight, and the applied
\* Document carries that style in front of the generated container
C22_Witness ==
    /\ ev = "apply"
    /\ aiPanel.ended.how = "mock"
    /\ Len(currentHtml.body) = 2
    /\ currentHtml.body[1].style = "a"
    /\ aiPanel.ended.sentHtml.body[1].style = ""
    /\ currentHtml.body[2].gen

\* the commits that keep the elements of the LiveTree in place
InPlaceCommits == {"timer", "blur", "style", "attribute", "imageReplace", "apply"}

\* C29: every commit is computed from the LiveTree as it is at commit time:
\* the Document it writes holds the text of every element of the LiveTree,
\* text typed within the pending debounce window included.
C29_CommitReadsLiveTree ==
    [][(nUpd' = 1 /\ ev' \in InPlaceCommits) =>
          \A i \in Idx(tree) :
              /\ i \in Idx(currentHtml')
              /\ currentHtml'.body[i].text = tree.body[i].text]_vars

\* the VisualEditor effect is torn down and run again: the Document changed
\* or the grid was switched
Teardown == currentHtml' # currentHtml \/ ev' = "toggleGrid"

\* C30: at most one debounce timer is pending, and it is the one the ref
\* names; an input event cancels the timer that was pending; after a teardown
\* of the effect no timer is pending, so none set before it can fire.
C30_OneTimerNoneAfterTeardown ==
    [][/\ pending' <= 1
       /\ (pending' = 1) <=> refPending'
       /\ ev' = "input" => (nCleared' = pending /\ pending' = 1)
       /\ Teardown => pending' = 0]_vars

\* after a burst of input events the grid switch tore the effect down while
\* the last timer was pending, and cleared it
C30_Witness ==
    /\ ev = "toggleGrid"
    /\ burst = 2
    /\ nCleared = 1
    /\ pending = 0
    /\ ~refPending

\* C23: cleaning removes a leading fence with or without any language tag and
\* a trailing fence, and returns the rest unchanged; a response without fences
\* is returned unchanged.
C23_CleanStripsFencesOnly ==
    llm.cleaned =>
        /\ \A body \in ResponseBodies :
              /\ llm.text = body => llm.html = body
              /\ \A tag \in LanguageTags :
                    llm.text = Fenced(tag, body) => llm.html = body

\* markup with a style block of the reserved id in it
HasReservedBlock(markup) ==
    \E i \in 1..Len(markup) :
        /\ markup[i] = ReservedOpen
        /\ \E j \in (i + 1)..Len(markup) : markup[j] = StyleClose

\* C28: the strip step is idempotent for every markup string, markup with more
\* than one block of the reserved id included, and markup without such a block
\* is returned unchanged.
C28_StripIdempotent ==
    /\ strip.n >= 1 /\ ~HasReservedBlock(strip.markup) => strip.once = strip.markup
    /\ strip.n = 2 => strip.twice = strip.once

\* a is the beginning of b
IsPrefix(a, b) == Len(a) <= Len(b) /\ SubSeq(b, 1, Len(a)) = a

\* the steps that save a version
SaveEvents == {"saveScreenVersion", "save"}

\* C24: the version list of a screen that a step keeps only grows: the step
\* leaves the versions it had where they were and as they were, only a save
\* adds one, and a saveScreenVersion adds exactly one at the end.
C24_VersionListOnlyGrows ==
    [][LET old == screensStore.screens
           new == screensStore'.screens
       IN  /\ \A i \in 1..Len(old), j \in 1..Len(new) :
                 old[i].id = new[j].id =>
                    /\ IsPrefix(old[i].versions, new[j].versions)
                    /\ Len(new[j].versions) <= Len(old[i].versions) + 1
                    /\ Len(new[j].versions) > Len(old[i].versions) => ev' \in SaveEvents
           /\ ev' = "saveScreenVersion" =>
                 \E i \in 1..Len(old) :
                    /\ new[i].id = old[i].id
                    /\ Len(new[i].versions) = Len(old[i].versions) + 1]_vars

\* C25: after a saveScreenVersion or a restoreVersion the screen it was called
\* for has the html and the id of its most recently created version, the last
\* of its list, as editedHtml and currentVersionId.
C25_ActiveIsNewestVersion ==
    [][ev' \in {"saveScreenVersion", "restoreVersion"} =>
          \A i \in 1..Len(screensStore'.screens) :
             LET s == screensStore'.screens[i]
             IN  s # screensStore.screens[i] /\ s.versions # <<>> =>
                    /\ s.editedHtml = s.versions[Len(s.versions)].html
                    /\ s.currentVersionId = s.versions[Len(s.versions)].id]_vars

\* C26: when the backend write of a version fails, the save shows a save error
\* with the underlying message, saveChanges is not called and the Document is
\* the one it was.
C26_FailedWriteIsSurfaced ==
    [][ev' = "save" /\ editorPage'.lastWrite \in WriteFailures =>
          /\ editorPage'.message = SaveFailed
          /\ ~editorPage'.saveChangesCalled
          /\ currentHtml' = currentHtml]_vars

\* the screen of the Editor's route, 0 when the store has none of that id
RouteScreen == FindScreen(screensStore.screens, editorPage.screenId)

\* the Document the screen of the route is to be loaded with: its stored
\* edited html, otherwise the fetched html, otherwise the placeholder
ExpectedDocument ==
    LET s == screensStore.screens[RouteScreen]
    IN  IF Truthy(s.editedHtml) THEN s.editedHtml
        ELSE IF editorPage.lastFetch = "ok" THEN Served(s.filePath)
        ELSE Placeholder(s.name)

\* C27: for a screen that exists, loading comes to its end, loading is false
\* and the Document is not empty: the stored edited html, otherwise the
\* fetched html, otherwise, the fetch having failed, the placeholder with the
\* screen's name.
C27_LoadCompletesWithDocument ==
    (RouteScreen # 0) ~>
        (/\ RouteScreen # 0
         /\ ~editorPage.loading
         /\ Truthy(currentHtml)
         /\ currentHtml = ExpectedDocument)

\* C31: a double-click on an image shows the toolbar with isImage true and
\* opens the image modal in the same step; on another element it shows the
\* toolbar and opens no modal; on the root container it changes nothing.
C31_DoubleClickToolbarAndModal ==
    [][/\ ev' = "dblclick" =>
             \E i \in Idx(tree) :
                /\ tree.body[i].sel
                /\ toolbar'.visible
                /\ toolbar'.elementType = tree.body[i].tag
                /\ toolbar'.isImage = (tree.body[i].tag = "img")
                /\ imageModalOpen' = (tree.body[i].tag = "img")
       /\ ev' = "dblclickRoot" =>
             UNCHANGED <<tree, currentHtml, storeSel, panelEl, toolbar, focus,
                         pending, imageModalOpen, selectedElementRef>>]_vars

C31_Witness ==
    ev = "dblclick" /\ toolbar.visible /\ toolbar.isImage /\ imageModalOpen

\* C32: a mouseover or a mouseout changes the hover marker only: the selection
\* marker and every other part of each element, the selected path in the
\* store, the toolbar and the Document stay, and updateHtml is not called.
C32_HoverChangesHoverMarkerOnly ==
    [][ev' \in {"mouseover", "mouseout"} =>
          /\ Len(tree'.body) = Len(tree.body)
          /\ tree'.styles = tree.styles
          /\ \A i \in Idx(tree) :
                tree'.body[i] = [tree.body[i] EXCEPT !.hov = tree'.body[i].hov]
          /\ storeSel' = storeSel
          /\ toolbar' = toolbar
          /\ currentHtml' = currentHtml
          /\ nUpd' = 0]_vars

C32_Witness ==
    /\ ev = "mouseover"
    /\ toolbar.visible
    /\ \E i \in Idx(tree) : tree.body[i].sel
    /\ \E i \in Idx(tree) : tree.body[i].hov /\ ~tree.body[i].sel

\* the hex form: '#' and two lowercase hex digits for each of r, g, b
Hex(r, g, b) ==
    LET Two(x) == <<HexDigits[(x \div 16) + 1], HexDigits[(x % 16) + 1]>>
    IN  <<"#">> \o Two(r) \o Two(g) \o Two(b)

\* C33: for all channels r, g, b in 0..255 rgbToHex of rgb(r, g, b) and of
\* rgba(r, g, b, a) is '#' and two lowercase hex digits for each channel; a
\* value that starts with '#' and 'transparent' are returned as they are.
C33_RgbToHex ==
    color.converted =>
        /\ \A r \in Channels, g \in Channels, b \in Channels :
              /\ color.rgb = Rgb(r, g, b) => color.hex = Hex(r, g, b)
              /\ \A alpha \in Alphas :
                    color.rgb = Rgba(r, g, b, alpha) => color.hex = Hex(r, g, b)
        /\ StartsWith(color.rgb, <<"#">>) \/ color.rgb = Transparent =>
              color.hex = color.rgb

\* C34: every generate request eventually finishes with isGenerating false,
\* whatever its outcome: success, a failure result, or a rejected call.
C34_GenerationEnds == aiPanel.isGenerating ~> ~aiPanel.isGenerating

\* C35: at most one generation request is in flight, and isGenerating is true
\* exactly while one is, whichever way the request was started (the Generate
\* button or Ctrl/Cmd+Enter in the prompt box).
C35_OneGenerationInFlight ==
    /\ Len(aiPanel.calls) <= 1
    /\ aiPanel.isGenerating <=> aiPanel.calls # <<>>

\* what a load of screen s can make the Document: its stored edited html or a
\* version of it, the body its fetch answers with, its placeholder
DocumentsOf(s) ==
    {Served(s.filePath), Placeholder(s.name)} \cup ErrorBodies
        \cup {s.editedHtml} \cup {s.versions[k].html : k \in 1..Len(s.versions)}

\* what only a load of screen s produces
OwnDocuments(s) == {Served(s.filePath), Placeholder(s.name)}

\* C36: once loading has settled the Document belongs to the screen of the
\* route: the late response of a screen the user has left never replaces the
\* Document of the screen they went to, and a save never stores the html of
\* one screen as a version of another.
C36_DocumentBelongsToRoute ==
    LET screens == screensStore.screens
    IN  /\ RouteScreen # 0 /\ ~editorPage.loading =>
              currentHtml \in DocumentsOf(screens[RouteScreen])
        /\ \A i \in 1..Len(screens), j \in 1..Len(screens) :
              i # j =>
                 \A k \in 1..Len(screens[i].versions) :
                    screens[i].versions[k].html \notin OwnDocuments(screens[j])

\* C37: whenever the toolbar is visible, its elementType and isImage describe
\* the element that carries the selection marker.
C37_ToolbarDescribesSelected ==
    toolbar.visible =>
        /\ QuerySelected(tree) # 0
        /\ toolbar.elementType = tree.body[QuerySelected(tree)].tag
        /\ toolbar.isImage = (tree.body[QuerySelected(tree)].tag = "img")

\* C38: the property panel holds an element exactly when the store has a
\* selected path, and then it is the element of the current LiveTree that
\* carries the selection marker; after Escape, a delete or a rebuild of the
\* LiveTree it holds no removed or detached element.
C38_PanelFollowsSelection ==
    /\ panelEl.kind # "null" <=> storeSel # "null"
    /\ panelEl.kind # "null" =>
          /\ panelEl.kind = "live"
          /\ panelEl.idx = QuerySelected(tree)

\* C39: in the screens store with batch selection, selectedIds has no
\* duplicates and holds only ids of screens that are in the store.
C39_SelectedIdsAreScreens ==
    /\ \A i \in 1..Len(batch.selectedIds), j \in 1..Len(batch.selectedIds) :
          batch.selectedIds[i] = batch.selectedIds[j] => i = j
    /\ \A i \in 1..Len(batch.selectedIds) :
          IncludesId(ScreenIds(batch.screens), batch.selectedIds[i])

====
